---- MODULE Spec2Model ----
(***************************************************************************)
(* A model of nlp/pipeline/data/data_pack.py: the DataPack entry store,    *)
(* its DataIndex and the get_data request engine.                          *)
(*                                                                         *)
(* Entries are records.  An annotation is                                  *)
(*   [kind, begin, end, component, pos_tag, tid],                          *)
(* a link is [kind, parent, child, component, tid] and a group is          *)
(*   [kind, members, component, tid];                                      *)
(* parent, child and members hold tids.  An entry that has not been added  *)
(* to the pack yet has no tid field.  Python strings are TLA+ strings,     *)
(* the text buffer is a sequence of characters, a dict is a function, a    *)
(* defaultdict(set) is a total function whose absent keys map to {}.       *)
(***************************************************************************)
EXTENDS Integers, Sequences, FiniteSets, TLC

VARIABLES
    text,            \* DataPack._text
    annotations,     \* DataPack.annotations (SortedList), as a sequence
    links,           \* DataPack.links (list)
    groups,          \* DataPack.groups (list)
    index,           \* DataPack.index (DataIndex), a record of its fields
    meta,            \* DataPack.meta (Meta), a record of its attributes
    internal_metas,  \* DataPack.internal_metas: kind -> InternalMeta
    generator,       \* the generator a call of get_data returned, as pulled so far
    ret              \* the last call made on the pack and what it returned

vars == <<text, annotations, links, groups, index, meta, internal_metas,
          generator, ret>>

(***************************************************************************)
(* Bounds of the model.                                                    *)
(***************************************************************************)
\* at most this many entries are stored in the three containers together
MaxEntries == 2
\* record_fields is called for at most this many (kind, component) pairs
MaxRecorded == 2
\* set_meta is called with at most this many keyword arguments
MaxKwargs == 2

(***************************************************************************)
(* The entry kinds (nlp.pipeline.data.ontology).                           *)
(***************************************************************************)
AnnKinds == {"Sentence", "Token"}
LinkKinds == {"Dependency"}
GroupKinds == {"CoreferenceGroup"}
ConcreteKinds == AnnKinds \cup LinkKinds \cup GroupKinds
AllTypes == ConcreteKinds \cup {"Annotation", "Link", "Group", "Entry"}

\* the base class of a class
BaseOf(k) ==
    CASE k \in AnnKinds -> "Annotation"
      [] k \in LinkKinds -> "Link"
      [] k \in GroupKinds -> "Group"
      [] OTHER -> "Entry"

\* issubclass(k, t)
issubclass(k, t) == k = t \/ BaseOf(k) = t \/ BaseOf(BaseOf(k)) = t

\* isinstance(entry, t)
isinstance(entry, t) == issubclass(entry.kind, t)

Components == {"c1", "c2"}
Spans == {<<0, 1>>, <<0, 2>>, <<1, 2>>}
PosTags == {"NN"}
Texts == {<<"a", "b">>}

\* the value of a Python None
None == "None"

(***************************************************************************)
(* Entry: tid assignment, equality and the order of annotations.           *)
(***************************************************************************)
\* Entry.set_tid(tid): the entry now carries the string it was given
set_tid(entry, tid) == [x \in (DOMAIN entry) \cup {"tid"} |->
                           IF x = "tid" THEN tid ELSE entry[x]]

\* the fields of an entry that Entry equality compares
Content(entry) ==
    CASE isinstance(entry, "Annotation") -> <<entry.kind, entry.begin, entry.end>>
      [] isinstance(entry, "Link") -> <<entry.kind, entry.parent, entry.child>>
      [] isinstance(entry, "Group") -> <<entry.kind, entry.members>>

\* Entry.__eq__: same kind and same span / parent and child / members
EntryEq(a, b) == Content(a) = Content(b)

\* Annotation.__lt__: by span.begin, ties broken by span.end
AnnLess(a, b) == a.begin < b.begin \/ (a.begin = b.begin /\ a.end < b.end)

(***************************************************************************)
(* The containers: SortedList and list.                                    *)
(***************************************************************************)
InsertAt(s, i, e) == SubSeq(s, 1, i) \o <<e>> \o SubSeq(s, i + 1, Len(s))

\* bisect_right: the number of elements of the sorted s that are <= e
bisect(s, e) == Cardinality({j \in 1..Len(s) : ~AnnLess(e, s[j])})

\* a wrong insertion, for comparison: the entry is appended
SortedAdd_append(s, e) == Append(s, e)

\* SortedList.add(e): e goes after the elements that are <= e
SortedAdd(s, e) == InsertAt(s, bisect(s, e), e)

\* SortedList(iterable): a stable sort of the iterable
RECURSIVE SortedListOf(_)
SortedListOf(s) ==
    IF s = <<>> THEN <<>>
    ELSE SortedAdd(SortedListOf(SubSeq(s, 1, Len(s) - 1)), s[Len(s)])

\* bisect_left: the number of elements of the sorted s that are < e
bisect_left(s, e) == Cardinality({j \in 1..Len(s) : AnnLess(s[j], e)})

\* list.index(entry): the position of the first element equal to entry,
\* 0 when there is none (ValueError)
ListIndex(target, entry) ==
    IF \E j \in 1..Len(target) : EntryEq(target[j], entry)
    THEN CHOOSE j \in 1..Len(target) :
            /\ EntryEq(target[j], entry)
            /\ \A i \in 1..(j - 1) : ~EntryEq(target[i], entry)
    ELSE 0

\* SortedList.index(entry): the position bisect_left gives if the element
\* there is equal to entry, 0 otherwise (ValueError); elements of the same
\* span behind that position are not looked at
SortedIndex(target, entry) ==
    IF /\ bisect_left(target, entry) < Len(target)
       /\ EntryEq(target[bisect_left(target, entry) + 1], entry)
    THEN bisect_left(target, entry) + 1
    ELSE 0

\* the position at which the target container of entry finds it: the
\* annotations are a SortedList, the links and the groups are lists
IndexIn(target, entry) ==
    IF isinstance(entry, "Annotation") THEN SortedIndex(target, entry)
    ELSE ListIndex(target, entry)

\* entry in target
Contains(target, entry) == IndexIn(target, entry) # 0

ValueError == [err |-> "ValueError"]

\* target[target.index(entry)]
FirstEqual(target, entry) ==
    IF IndexIn(target, entry) # 0 THEN target[IndexIn(target, entry)]
    ELSE ValueError

Range(s) == {s[j] : j \in 1..Len(s)}

\* every entry stored in the pack
StoredEntries == Range(annotations) \cup Range(links) \cup Range(groups)

NumEntries == Len(annotations) + Len(links) + Len(groups)

(***************************************************************************)
(* DataIndex.                                                              *)
(***************************************************************************)
\* DataIndex.__init__
NewIndex ==
    [entry_index |-> <<>>,
     type_index |-> [k \in ConcreteKinds |-> {}],
     component_index |-> [c \in Components |-> {}],
     group_index |-> {},
     link_index |-> <<>>,
     group_index_switch |-> FALSE,
     link_index_switch |-> FALSE]

\* a defaultdict(set) index kept as a set of <<key, tid>> pairs: index[key]
Lookup(pairs, key) == {p[2] : p \in {q \in pairs : q[1] = key}}

\* a wrong loop body, for comparison: the component index is not updated
update_basic_index_one_no_component(idx, entry) ==
    [idx EXCEPT
        !.entry_index = (entry.tid :> entry) @@ @,
        !.type_index[entry.kind] = @ \cup {entry.tid}]

\* the body of the loop of update_basic_index
update_basic_index_one(idx, entry) ==
    [idx EXCEPT
        !.entry_index = (entry.tid :> entry) @@ @,
        !.type_index[entry.kind] = @ \cup {entry.tid},
        !.component_index[entry.component] = @ \cup {entry.tid}]

\* DataIndex.update_basic_index(entries)
RECURSIVE update_basic_index(_, _)
update_basic_index(idx, entries) ==
    IF entries = <<>> THEN idx
    ELSE update_basic_index(update_basic_index_one(idx, Head(entries)),
                            Tail(entries))

\* the pairs the loop of update_link_index adds for these links
ChildPairs(ls) == {<<ls[j].child, ls[j].tid>> : j \in 1..Len(ls)}
ParentPairs(ls) == {<<ls[j].parent, ls[j].tid>> : j \in 1..Len(ls)}

\* a wrong update, for comparison: with the switch on, the new links are
\* entered in the child index only
update_link_index_child_only(idx, ls, pack_links) ==
    IF ~idx.link_index_switch
    THEN [idx EXCEPT
            !.link_index_switch = TRUE,
            !.link_index = [child_index |-> ChildPairs(pack_links),
                            parent_index |-> ParentPairs(pack_links)]]
    ELSE [idx EXCEPT
            !.link_index = [child_index |-> @.child_index \cup ChildPairs(ls),
                            parent_index |-> @.parent_index]]

\* update_link_index(links) raises KeyError at _link_index["child_index"]:
\* the switch is on and the two sub-indexes were never created
update_link_index_raises(idx, ls) ==
    /\ idx.link_index_switch
    /\ ls # <<>>
    /\ "child_index" \notin DOMAIN idx.link_index

\* DataIndex.update_link_index(links), pack_links being data_pack.links:
\* the index afterwards (the index as it was when the call raises)
update_link_index(idx, ls, pack_links) ==
    IF ~idx.link_index_switch
    THEN [idx EXCEPT
            !.link_index_switch = TRUE,
            !.link_index = [child_index |-> ChildPairs(pack_links),
                            parent_index |-> ParentPairs(pack_links)]]
    ELSE IF update_link_index_raises(idx, ls) \/ ls = <<>> THEN idx
    ELSE [idx EXCEPT
            !.link_index = [child_index |-> @.child_index \cup ChildPairs(ls),
                            parent_index |-> @.parent_index \cup ParentPairs(ls)]]

\* the pairs the loop of update_group_index adds for these groups
MemberPairs(gs) ==
    UNION {{<<m, gs[j].tid>> : m \in gs[j].members} : j \in 1..Len(gs)}

\* DataIndex.update_group_index(groups), pack_groups being data_pack.groups
update_group_index(idx, gs, pack_groups) ==
    IF ~idx.group_index_switch
    THEN [idx EXCEPT
            !.group_index_switch = TRUE,
            !.group_index = MemberPairs(pack_groups)]
    ELSE [idx EXCEPT !.group_index = @ \cup MemberPairs(gs)]

(***************************************************************************)
(* DataPack: construction and the entries a caller can hand to it.         *)
(***************************************************************************)
\* Meta.__init__(doc_id) with doc_id None
NewMeta ==
    [doc_id |-> None,
     language |-> "english",
     span_unit |-> "character",
     process_state |-> "",
     cache_state |-> ""]

\* InternalMeta.__init__
NewInternalMeta ==
    [id_counter |-> 0,
     fields_created |-> [c \in Components |-> {}],
     default_component |-> None]

\* no generator of get_data is held. A generator keeps the arguments of the
\* call and the local variables of the sentence loop: the copy of the
\* annotations it iterates, the position reached in it, valid_sent_ids,
\* sent_type, sent_fields and skipped; err is the exception that ended it.
\* produced lists the sentences it has yielded a record for, expected the
\* sentences a whole consumption at the first pull would have visited.
NoGenerator ==
    [state |-> "none", context_type |-> "sentence",
     requests |-> [given |-> FALSE], offset |-> 0,
     copy |-> <<>>, pos |-> 0, skipped |-> 0, valid_sent_ids |-> {},
     sent_type |-> "Sentence", sent_fields |-> {}, err |-> None,
     produced |-> <<>>, expected |-> <<>>]

\* DataPack.__init__
Init ==
    /\ text = <<>>
    /\ annotations = <<>>
    /\ links = <<>>
    /\ groups = <<>>
    /\ index = NewIndex
    /\ meta = NewMeta
    /\ internal_metas = [k \in ConcreteKinds |-> NewInternalMeta]
    /\ generator = NoGenerator
    /\ ret = [op |-> "init", err |-> None]

\* annotations a caller constructs: Sentence(begin, end), Token(begin, end)
AnnInputs ==
    {[kind |-> k, begin |-> sp[1], end |-> sp[2], component |-> c, pos_tag |-> p] :
        k \in AnnKinds, sp \in Spans, c \in Components, p \in PosTags}

\* the tids of the stored annotations of a kind
TidsOfKind(k) == {a.tid : a \in {x \in Range(annotations) : x.kind = k}}

\* links a caller constructs: Dependency(parent, child) between stored tokens
LinkInputs ==
    {[kind |-> k, parent |-> p, child |-> c, component |-> cmp] :
        k \in LinkKinds, p \in TidsOfKind("Token"), c \in TidsOfKind("Token"),
        cmp \in Components}

\* groups a caller constructs: CoreferenceGroup over stored annotations
GroupInputs ==
    {[kind |-> k, members |-> m, component |-> cmp] :
        k \in GroupKinds, m \in SUBSET {a.tid : a \in Range(annotations)},
        cmp \in Components}

EntryInputs == AnnInputs \cup LinkInputs \cup GroupInputs

(***************************************************************************)
(* DataPack.add_entry and DataPack.add_or_get_entry.                       *)
(***************************************************************************)
\* the target container of an entry, chosen by isinstance
TargetOf(entry) ==
    CASE isinstance(entry, "Annotation") -> annotations
      [] isinstance(entry, "Link") -> links
      [] isinstance(entry, "Group") -> groups

\* the index update at the end of add_entry and add_or_get_entry raises
AddRaises(idx, e) ==
    /\ isinstance(e, "Link")
    /\ update_link_index_raises(idx, <<e>>)

\* the index updates at the end of add_entry and add_or_get_entry
IndexAfterAdd(idx, e, new_links, new_groups) ==
    LET idx1 == update_basic_index(idx, <<e>>)
        idx2 == IF idx1.link_index_switch /\ isinstance(e, "Link")
                THEN update_link_index(idx1, <<e>>, new_links)
                ELSE idx1
    IN  IF AddRaises(idx, e) THEN idx1
        ELSE IF idx2.group_index_switch /\ isinstance(e, "Group")
        THEN update_group_index(idx2, <<e>>, new_groups)
        ELSE idx2

\* what ret keeps of a call of add_entry or add_or_get_entry: the entry
\* returned, by how much the containers grew, whether an equal entry was
\* stored before the call and, for add_or_get_entry called right after
\* add_or_get_entry, the same of the call before
AddResult(opname, raised, e, entry) ==
    [op |-> opname,
     err |-> IF raised THEN "KeyError" ELSE None,
     val |-> e,
     grew |-> NumEntries' - NumEntries,
     had |-> \E x \in StoredEntries : Content(x) = Content(entry),
     prev |-> IF opname = "add_or_get_entry" /\ ret.op = "add_or_get_entry"
              THEN <<[val |-> ret.val, grew |-> ret.grew, had |-> ret.had]>>
              ELSE <<>>]

\* a wrong count, for comparison: the id counter is left as it is
IncrementIdCounter_kept(metas, kind) == metas

\* self.internal_metas[entry.__class__].id_counter += 1
IncrementIdCounter(metas, kind) == [metas EXCEPT ![kind].id_counter = @ + 1]

\* "add the entry to the target entry list" and "update the data pack index":
\* the code add_entry and add_or_get_entry share
InsertEntry(entry, opname) ==
    LET e == set_tid(entry, ToString(internal_metas[entry.kind].id_counter))
        new_annotations == IF isinstance(e, "Annotation")
                           THEN SortedAdd(annotations, e) ELSE annotations
        new_links == IF isinstance(e, "Link") THEN Append(links, e) ELSE links
        new_groups == IF isinstance(e, "Group") THEN Append(groups, e) ELSE groups
        new_index == IndexAfterAdd(index, e, new_links, new_groups)
    IN  /\ annotations' = new_annotations
        /\ links' = new_links
        /\ groups' = new_groups
        /\ internal_metas' = IncrementIdCounter(internal_metas, e.kind)
        /\ index' = new_index
        /\ ret' = AddResult(opname, AddRaises(index, e), e, entry)
        /\ UNCHANGED <<meta, generator, text>>

\* DataPack.add_entry(entry) for an entry among inputs
AddEntryFrom(inputs) ==
    \E entry \in inputs :
        /\ NumEntries < MaxEntries
        /\ InsertEntry(entry, "add_entry")

\* the annotations over the whole text
WholeTextInputs == {a \in AnnInputs : a.begin = 0 /\ a.end = 2}

AddEntry == AddEntryFrom(EntryInputs)
AddAnnotation == AddEntryFrom(AnnInputs)
AddWholeTextAnnotation == AddEntryFrom(WholeTextInputs)

\* DataPack.add_or_get_entry(entry) for an entry among inputs, on a pack
\* that may grow to limit entries
AddOrGetEntryFrom(inputs, limit) ==
    \E entry \in inputs :
        IF ~Contains(TargetOf(entry), entry)
        THEN /\ NumEntries < limit
             /\ InsertEntry(entry, "add_or_get_entry")
        ELSE /\ UNCHANGED <<meta, generator, text, annotations, links, groups, index, internal_metas>>
             /\ ret' = AddResult("add_or_get_entry", FALSE,
                                 FirstEqual(TargetOf(entry), entry), entry)

AddOrGetEntry == AddOrGetEntryFrom(EntryInputs, MaxEntries)

\* add_or_get_entry for annotations; an equal annotation stored behind an
\* unequal one of the same span takes one entry more
AddOrGetAnnotation == AddOrGetEntryFrom(AnnInputs, MaxEntries + 1)

\* entries that are none of the three variants: instances of Entry itself
InvalidInputs == {[kind |-> "Entry", component |-> c] : c \in Components}

\* the isinstance chain at the head of add_entry and add_or_get_entry finds
\* a target container
HasTarget(entry) ==
    \/ isinstance(entry, "Annotation")
    \/ isinstance(entry, "Link")
    \/ isinstance(entry, "Group")

\* a wrong failure, for comparison: the entry is appended to the groups
\* before the error is raised
RaiseInvalidKind_appended(entry, opname) ==
    /\ ret' = [op |-> opname, err |-> "ValueError", val |-> entry,
               grew |-> 0, had |-> FALSE, prev |-> <<>>]
    /\ groups' = Append(groups, entry)
    /\ UNCHANGED <<meta, generator, text, annotations, links, index, internal_metas>>

\* "raise ValueError(Invalid entry type ...)": the else branch of the chain
RaiseInvalidKind(entry, opname) ==
    /\ ret' = [op |-> opname, err |-> "ValueError", val |-> entry,
               grew |-> 0, had |-> FALSE, prev |-> <<>>]
    /\ UNCHANGED <<meta, generator, text, annotations, links, groups, index, internal_metas>>

\* DataPack.add_entry(entry) for an entry of any class
AddAnyEntry ==
    \E entry \in EntryInputs \cup InvalidInputs :
        IF ~HasTarget(entry) THEN RaiseInvalidKind(entry, "add_entry")
        ELSE /\ NumEntries < MaxEntries
             /\ InsertEntry(entry, "add_entry")

\* DataPack.add_or_get_entry(entry) for an entry of any class
AddOrGetAnyEntry ==
    \E entry \in EntryInputs \cup InvalidInputs :
        IF ~HasTarget(entry) THEN RaiseInvalidKind(entry, "add_or_get_entry")
        ELSE IF ~Contains(TargetOf(entry), entry)
        THEN /\ NumEntries < MaxEntries
             /\ InsertEntry(entry, "add_or_get_entry")
        ELSE /\ UNCHANGED <<meta, generator, text, annotations, links, groups, index, internal_metas>>
             /\ ret' = AddResult("add_or_get_entry", FALSE,
                                 FirstEqual(TargetOf(entry), entry), entry)

\* the keyword names a caller passes to set_meta, "author" being none of
\* the attributes of Meta, and the values
MetaNames == {"doc_id", "language", "process_state", "author"}
MetaValues == {"v1", "v2"}

\* **kwargs: up to MaxKwargs (name, value) pairs with distinct names, in
\* the order of the call
Kwargs ==
    {kw \in UNION {[1..n -> MetaNames \X MetaValues] : n \in 1..MaxKwargs} :
        \A i, j \in 1..Len(kw) : i # j => kw[i][1] # kw[j][1]}

\* hasattr(self.meta, k)
MetaHasAttr(m, k) == k \in DOMAIN m

\* the loop of set_meta from kwargs[i] on: the error raised, if any, and
\* the Meta afterwards
RECURSIVE set_meta(_, _, _)
set_meta(m, kwargs, i) ==
    IF i > Len(kwargs) THEN [err |-> None, meta |-> m]
    ELSE IF ~MetaHasAttr(m, kwargs[i][1])
    THEN [err |-> "AttributeError", meta |-> m]
    ELSE set_meta([m EXCEPT ![kwargs[i][1]] = kwargs[i][2]], kwargs, i + 1)

\* DataPack.set_meta(**kwargs); ret keeps the arguments and the Meta as it
\* was before the call
SetMeta ==
    \E kwargs \in Kwargs :
        /\ meta' = set_meta(meta, kwargs, 1).meta
        /\ ret' = [op |-> "set_meta", err |-> set_meta(meta, kwargs, 1).err,
                   kwargs |-> kwargs, before |-> meta]
        /\ UNCHANGED <<text, annotations, links, groups, index, internal_metas,
                       generator>>

\* DataPack.set_text(text)
SetText ==
    \E t \in Texts :
        /\ text' = t
        /\ ret' = [op |-> "set_text", err |-> None]
        /\ UNCHANGED <<meta, generator, annotations, links, groups, index, internal_metas>>

(***************************************************************************)
(* Save and load: __getstate__ followed by __setstate__.                   *)
(***************************************************************************)
\* a wrong rebuild, for comparison: only the annotations are scanned
LoadedIndex_annotations(anns, ls, gs) == update_basic_index(NewIndex, anns)

\* the index __setstate__ builds
LoadedIndex(anns, ls, gs) ==
    update_basic_index(
        update_basic_index(update_basic_index(NewIndex, anns), ls), gs)

\* pickle round trip of the pack: __setstate__(__getstate__()); ret keeps
\* the switches of the index that was not saved
SaveLoad ==
    /\ annotations' = SortedListOf(annotations)
    /\ index' = LoadedIndex(annotations', links, groups)
    /\ ret' = [op |-> "load", err |-> None,
               link_switch_saved |-> index.link_index_switch,
               group_switch_saved |-> index.group_index_switch]
    /\ UNCHANGED <<meta, generator, text, links, groups, internal_metas>>

(***************************************************************************)
(* Identifier, type and component lookups.                                 *)
(***************************************************************************)
KeyError == [err |-> "KeyError"]

\* DataPack.get_entry_by_id(tid) on an index
EntryById(idx, tid) ==
    IF tid \in DOMAIN idx.entry_index THEN idx.entry_index[tid] ELSE KeyError

\* DataPack.get_entry_by_id(tid)
get_entry_by_id(tid) == EntryById(index, tid)

\* DataPack.get_ids_by_compoent(component) on an index
IdsByComponent(idx, component) == idx.component_index[component]

\* DataPack.get_ids_by_compoent(component)
get_ids_by_compoent(component) == IdsByComponent(index, component)

\* DataPack.get_ids_by_type(tp) on an index
IdsByType(idx, tp) ==
    UNION {idx.type_index[k] : k \in {x \in ConcreteKinds : issubclass(x, tp)}}

\* DataPack.get_ids_by_type(tp)
get_ids_by_type(tp) == IdsByType(index, tp)

\* A Python set, as get_data handles it: its elements and, when the set
\* object is one the index holds, the place of the index that holds it
\* (<<>> for a set made by the call).
NewSet(val) == [owner |-> <<>>, val |-> val]

\* a wrong get_ids_by_type, for comparison: for a concrete kind the set
\* of type_index itself is returned
IdsByTypeObject_shared(idx, tp) ==
    IF tp \in ConcreteKinds
    THEN [owner |-> <<"type_index", tp>>, val |-> idx.type_index[tp]]
    ELSE NewSet(IdsByType(idx, tp))

\* the set object get_ids_by_type returns: subclass_index, made by the call
IdsByTypeObject(idx, tp) == NewSet(IdsByType(idx, tp))

\* the set object get_ids_by_compoent returns: the set of component_index
IdsByComponentObject(idx, component) ==
    [owner |-> <<"component_index", component>>,
     val |-> IdsByComponent(idx, component)]

\* the index after an in-place set operation (|=, &=) that leaves the set
\* object obj with the elements val
InPlace(idx, obj, val) ==
    IF obj.owner = <<>> THEN idx
    ELSE [idx EXCEPT ![obj.owner[1]][obj.owner[2]] = val]

\* the index after the id filter of get_entries and of the sentence loop:
\*   valid_id = get_ids_by_type(entry_type); valid_component_id = set()
\*   for component in components:
\*       valid_component_id |= get_ids_by_compoent(component)
\*   valid_id &= valid_component_id
FilterIds(idx, entry_type, components) ==
    LET valid_id == IdsByTypeObject(idx, entry_type)
        valid_component_id == NewSet({})
        component_ids ==
            UNION {IdsByComponentObject(idx, c).val : c \in components}
        idx1 == InPlace(idx, valid_component_id, component_ids)
    IN  InPlace(idx1, valid_id, valid_id.val \cap component_ids)

\* The Python sets that set() followed by add(e) for each of the entries
\* can give. Entry.__hash__ goes with Entry.__eq__, so of the entries that
\* compare equal the set keeps one, the one added first; the entries are
\* added in the iteration order of a set of tid strings, which differs from
\* run to run.
PySets(entries) ==
    {S \in SUBSET entries :
        \A e \in entries :
            Cardinality({x \in S : x.kind = e.kind /\ EntryEq(x, e)}) = 1}

\* DataPack.get_entries_by_type(tp) on an index: the sets it can return
EntriesByType(idx, tp) ==
    PySets({e \in {EntryById(idx, tid) : tid \in IdsByType(idx, tp)} :
               isinstance(e, tp)})

\* DataPack.get_entries_by_type(tp): the sets it can return
get_entries_by_type(tp) == EntriesByType(index, tp)

(***************************************************************************)
(* Relation lookups: the link and group indexes are built on first use.    *)
(***************************************************************************)
\* DataIndex.link_index(tid, as_parent): the index afterwards, the error
\* raised if any, and the tids returned
link_index(idx, tid, as_parent) ==
    LET idx1 == IF ~idx.link_index_switch
                THEN update_link_index(idx, links, links) ELSE idx
    IN  IF "parent_index" \notin DOMAIN idx1.link_index
        THEN [idx |-> idx1, err |-> "KeyError", tids |-> {}]
        ELSE [idx |-> idx1, err |-> None,
              tids |-> Lookup(IF as_parent THEN idx1.link_index.parent_index
                              ELSE idx1.link_index.child_index, tid)]

\* DataIndex.group_index(tid): the index afterwards and the tids returned
group_index(idx, tid) ==
    LET idx1 == IF ~idx.group_index_switch
                THEN update_group_index(idx, groups, groups) ELSE idx
    IN  [idx |-> idx1, err |-> None, tids |-> Lookup(idx1.group_index, tid)]

\* the sets of the entries of these tids that are instances of tp which
\* the loop "entries.add(self.get_entry_by_id(tid))" can give
EntriesOf(idx, tids, tp) ==
    PySets({e \in {EntryById(idx, t) : t \in tids} : isinstance(e, tp)})

\* the tids a caller looks relations up for
LookupTids == DOMAIN index.entry_index

\* DataPack.get_links_by_parent(parent) / get_links_by_child(child)
GetLinksBy(as_parent) ==
    \E tid \in LookupTids :
        LET r == link_index(index, tid, as_parent)
        IN  /\ index' = r.idx
            /\ \E val \in EntriesOf(r.idx, r.tids, "Link") :
                  ret' = [op |-> IF as_parent THEN "get_links_by_parent"
                                 ELSE "get_links_by_child",
                          err |-> r.err,
                          arg |-> tid,
                          tids |-> r.tids,
                          val |-> val]
            /\ UNCHANGED <<meta, generator, text, annotations, links, groups, internal_metas>>

GetLinksByParent == GetLinksBy(TRUE)
GetLinksByChild == GetLinksBy(FALSE)

\* DataPack.get_groups_by_member(member)
GetGroupsByMember ==
    \E tid \in LookupTids :
        LET r == group_index(index, tid)
        IN  /\ index' = r.idx
            /\ \E val \in EntriesOf(r.idx, r.tids, "Group") :
                  ret' = [op |-> "get_groups_by_member",
                          err |-> r.err,
                          arg |-> tid,
                          tids |-> r.tids,
                          val |-> val]
            /\ UNCHANGED <<meta, generator, text, annotations, links, groups, internal_metas>>

\* DataIndex.turn_link_index_switch(on), called on pack.index
TurnLinkIndexSwitch ==
    \E on \in BOOLEAN :
        /\ index' = [index EXCEPT !.link_index_switch = on]
        /\ ret' = [op |-> "turn_link_index_switch", err |-> None, arg |-> on]
        /\ UNCHANGED <<meta, generator, text, annotations, links, groups, internal_metas>>

\* DataIndex.turn_group_index_switch(on), called on pack.index
TurnGroupIndexSwitch ==
    \E on \in BOOLEAN :
        /\ index' = [index EXCEPT !.group_index_switch = on]
        /\ ret' = [op |-> "turn_group_index_switch", err |-> None, arg |-> on]
        /\ UNCHANGED <<meta, generator, text, annotations, links, groups, internal_metas>>

(***************************************************************************)
(* DataPack.record_fields.                                                 *)
(***************************************************************************)
FieldNames == {"pos_tag", "sense"}

\* the field lists a component declares
FieldLists == {<<"pos_tag">>, <<"sense">>}

\* the (kind, component) pairs record_fields was called for
Recorded ==
    {kc \in ConcreteKinds \X Components :
        internal_metas[kc[1]].fields_created[kc[2]] # {}}

\* DataPack.record_fields(fields, entry_type, component)
RecordFields ==
    \E fields \in FieldLists, entry_type \in AnnKinds, component \in Components :
        /\ <<entry_type, component>> \in Recorded
           \/ Cardinality(Recorded) < MaxRecorded
        /\ internal_metas' =
             [internal_metas EXCEPT
                ![entry_type].default_component =
                    IF @ = None THEN component ELSE @,
                ![entry_type].fields_created[component] =
                    @ \cup Range(Append(fields, "tid"))]
        /\ ret' = [op |-> "record_fields", err |-> None]
        /\ UNCHANGED <<meta, generator, text, annotations, links, groups, index>>

(***************************************************************************)
(* get_data: requests.                                                     *)
(*                                                                         *)
(* requests is [given |-> FALSE] for None and otherwise                    *)
(* [given |-> TRUE, items |-> the (type, args) pairs of the dict in        *)
(* order]; the args of a type are [form |-> "none"] for None,              *)
(* [form |-> "list", fields |-> the names] for a list of field names and   *)
(* [form |-> "dict", dict |-> d] for a dict d with some of the keys        *)
(* "fields" and "component".  An optional value is <<>> for None and       *)
(* <<v>> for v.                                                            *)
(***************************************************************************)
ArgsNone == [form |-> "none"]
ArgsList(fs) == [form |-> "list", fields |-> fs]
ArgsDict(d) == [form |-> "dict", dict |-> d]

\* a_args.get(key) of a dict request
DictGet(a_args, key) ==
    IF a_args.form = "dict" /\ key \in DOMAIN a_args.dict
    THEN <<a_args.dict[key]>> ELSE <<>>

\* the field names _parse_request_args reads from a_args
RequestedFields(a_args) ==
    CASE a_args.form = "none" -> {}
      [] a_args.form = "list" -> a_args.fields
      [] a_args.form = "dict" ->
            IF "fields" \in DOMAIN a_args.dict THEN a_args.dict["fields"] ELSE {}

\* "check the existence of fields" raises: some InternalMeta of a subclass
\* of a_type has an allowed component whose recorded fields lack one of
\* the requested fields
FieldCheckRaises(a_type, components, fields) ==
    \E meta_key \in ConcreteKinds :
        /\ issubclass(meta_key, a_type)
        /\ \E meta_c \in Components :
              /\ internal_metas[meta_key].fields_created[meta_c] # {}
              /\ components = <<>> \/ meta_c \in components[1]
              /\ ~(fields \subseteq internal_metas[meta_key].fields_created[meta_c])

\* DataPack._parse_request_args(a_type, a_args)
parse_request_args(a_type, a_args) ==
    LET components == DictGet(a_args, "component")
        unit == DictGet(a_args, "unit")
        fields == RequestedFields(a_args)
    IN  IF FieldCheckRaises(a_type, components, fields)
        THEN [err |-> "KeyError", components |-> components, unit |-> unit,
              fields |-> fields]
        ELSE [err |-> None, components |-> components, unit |-> unit,
              fields |-> fields \cup {"tid"}]

(***************************************************************************)
(* get_data: the entries of a kind within a range.                         *)
(***************************************************************************)
\* Python text[b:e] for b, e >= 0
Slice(t, b, e) ==
    LET hi == IF e > Len(t) THEN Len(t) ELSE e
    IN  IF b >= hi THEN <<>> ELSE SubSeq(t, b + 1, hi)

\* Annotation.text
TextOf(a) == Slice(text, a.begin, a.end)

\* Annotation.span
SpanOf(a) == [begin |-> a.begin, end |-> a.end]

\* an argument given as a tid (a str) rather than as an entry
TidArg(tid) == [str |-> tid]
IsStr(arg) == "str" \in DOMAIN arg

SetMin(S) == CHOOSE x \in S : \A y \in S : x <= y
SetMax(S) == CHOOSE x \in S : \A y \in S : x >= y

\* the entry in_span works on: entry_index[inner_entry] for a str
InnerEntry(arg) == IF IsStr(arg) THEN EntryById(index, arg.str) ELSE arg

\* the tids a link or a group refers to
ReferredTids(e) ==
    IF e.kind \in LinkKinds THEN {e.child, e.parent}
    ELSE IF e.kind \in GroupKinds THEN e.members
    ELSE {}

\* Link.get_child(), Link.get_parent(), Group.get_members(): the entries
\* entry_index holds for the tids referred to
ReferredEntries(e) == {EntryById(index, t) : t \in ReferredTids(e)}

\* the error in_span raises, if any: KeyError for a tid that entry_index
\* does not hold, ValueError for an entry of no known kind, AttributeError
\* for a referred entry that has no span
in_span_err(arg) ==
    IF IsStr(arg) /\ arg.str \notin DOMAIN index.entry_index THEN "KeyError"
    ELSE LET e == InnerEntry(arg)
         IN  IF e.kind \notin ConcreteKinds THEN "ValueError"
             ELSE IF \E t \in ReferredTids(e) : t \notin DOMAIN index.entry_index
             THEN "KeyError"
             ELSE IF \E m \in ReferredEntries(e) : ~isinstance(m, "Annotation")
             THEN "AttributeError"
             ELSE None

\* inner_begin and inner_end of in_span; a group without members keeps
\* the initial -1 and -1
InnerExtent(e) ==
    IF isinstance(e, "Annotation") THEN [begin |-> e.begin, end |-> e.end]
    ELSE IF ReferredEntries(e) = {} THEN [begin |-> -1, end |-> -1]
    ELSE [begin |-> SetMin({m.begin : m \in ReferredEntries(e)}),
          end |-> SetMax({m.end : m \in ReferredEntries(e)})]

\* DataIndex.in_span(inner_entry, span), when it does not raise
in_span(inner_entry, span) ==
    LET ext == InnerExtent(InnerEntry(inner_entry))
    IN  ext.begin >= span.begin /\ ext.end <= span.end

\* the spans in_span is asked about
SpanArgs == {[begin |-> sp[1], end |-> sp[2]] : sp \in Spans}

\* the entries and tids in_span is called with
InSpanArgs == StoredEntries \cup {TidArg(t) : t \in DOMAIN index.entry_index}

\* index.in_span(inner_entry, span) on a stored entry or its tid
InSpan ==
    \E arg \in InSpanArgs, span \in SpanArgs :
        /\ ret' = [op |-> "in_span", err |-> in_span_err(arg),
                   arg |-> arg, span |-> span,
                   val |-> IF in_span_err(arg) = None
                           THEN in_span(arg, span) ELSE FALSE]
        /\ UNCHANGED <<meta, generator, text, annotations, links, groups, index, internal_metas>>

\* the union of get_ids_by_compoent(c) over the components
IdsByComponents(components) == UNION {get_ids_by_compoent(c) : c \in components}

\* the ids of the entries of entry_type made by the components
ValidIds(entry_type, components) ==
    IF components = <<>> THEN get_ids_by_type(entry_type)
    ELSE get_ids_by_type(entry_type) \cap IdsByComponents(components[1])

\* getattr(entry, field)
HasAttr(entry, field) == field \in DOMAIN entry
GetAttr(entry, field) == entry[field]

\* DataPack.get_entries(entry_type, range_annotation, components) for a
\* subclass of Annotation; range_annotation is <<>> or <<annotation>>.
\* With no range and no annotation stored, annotations[-1] raises.
get_entries_raises(range_annotation) ==
    range_annotation = <<>> /\ annotations = <<>>

get_entries(entry_type, range_annotation, components) ==
    LET range_begin == IF range_annotation # <<>>
                       THEN range_annotation[1].begin ELSE 0
        range_end == IF range_annotation # <<>>
                     THEN range_annotation[1].end
                     ELSE annotations[Len(annotations)].end
        valid_id == ValidIds(entry_type, components)
        \* bisect(Annotation(range_begin, -1)), bisect(Annotation(range_end, -1))
        begin_index == bisect(annotations, [begin |-> range_begin, end |-> -1])
        end_index == bisect(annotations, [begin |-> range_end, end |-> -1])
        keep(a) == /\ a.tid \in valid_id
                   /\ \/ range_annotation = <<>>
                      \/ in_span(a, SpanOf(range_annotation[1]))
    IN  SelectSeq(SubSeq(annotations, begin_index + 1, end_index), keep)

(***************************************************************************)
(* get_data: the sub-record of an annotation kind.                         *)
(***************************************************************************)
\* the value appended to a_dict[field] for this annotation
FieldValue(annotation, field, sent_begin) ==
    IF field = "context_span"
    THEN <<annotation.begin - sent_begin, annotation.end - sent_begin>>
    ELSE GetAttr(annotation, field)

\* a_dict[key] after the loop over the annotations
Column(anns, key, fields, sent_begin) ==
    CASE key = "span" -> [j \in 1..Len(anns) |-> <<anns[j].begin, anns[j].end>>]
      [] key = "text" -> [j \in 1..Len(anns) |-> TextOf(anns[j])]
      [] OTHER -> [j \in 1..Len(anns) |-> FieldValue(anns[j], key, sent_begin)]

\* one of the two while loops of the unit_span computation: from position
\* i (counted from 0) of tids, the first position whose entry is in span
\* (want = TRUE) or is not (want = FALSE); running past the end of tids
\* raises IndexError
RECURSIVE UnitScan(_, _, _, _)
UnitScan(tids, i, span, want) ==
    LET Step(err) ==
            IF err # None THEN [err |-> err, pos |-> i]
            ELSE IF in_span(TidArg(tids[i + 1]), span) = want
            THEN [err |-> None, pos |-> i]
            ELSE UnitScan(tids, i + 1, span, want)
    IN  IF i >= Len(tids) THEN [err |-> "IndexError", pos |-> i]
        ELSE Step(in_span_err(TidArg(tids[i + 1])))

\* the unit_span of one annotation: the cursor unit_begin afterwards and
\* the pair (unit_span_begin, unit_span_end), or the error raised
UnitSpan(tids, unit_begin, span) ==
    LET End(first, last) ==
            IF last.err # None THEN [err |-> last.err]
            ELSE [err |-> None, unit_begin |-> first.pos,
                  val |-> <<first.pos, last.pos>>]
        Begin(first) ==
            IF first.err # None THEN [err |-> first.err]
            ELSE End(first, UnitScan(tids, first.pos + 1, span, FALSE))
    IN  Begin(UnitScan(tids, unit_begin, span, TRUE))

\* the loop over the annotations of _generate_annotation_entry_data from
\* anns[j] on: the unit_span column (empty without unit), or the first
\* error raised by getattr or by the unit_span computation
RECURSIVE AnnotationLoop(_, _, _, _, _)
AnnotationLoop(anns, j, plain, unit_tids, unit_begin) ==
    LET Rest(u, rest) ==
            IF rest.err # None THEN rest
            ELSE [err |-> None, unit_span |-> <<u.val>> \o rest.unit_span]
        Body(u) ==
            IF u.err # None THEN [err |-> u.err]
            ELSE Rest(u, AnnotationLoop(anns, j + 1, plain, unit_tids,
                                        u.unit_begin))
    IN  IF j > Len(anns) THEN [err |-> None, unit_span |-> <<>>]
        ELSE IF \E f \in plain : ~HasAttr(anns[j], f)
        THEN [err |-> "AttributeError"]
        ELSE IF unit_tids = <<>>
        THEN AnnotationLoop(anns, j + 1, plain, unit_tids, unit_begin)
        ELSE Body(UnitSpan(unit_tids[1], unit_begin, SpanOf(anns[j])))

\* DataPack._generate_annotation_entry_data(a_type, a_args, data, sent);
\* sent is <<>> or <<sentence>>
generate_annotation_entry_data(a_type, a_args, data, sent) ==
    LET sent_begin == IF sent # <<>> THEN sent[1].begin ELSE 0
        Dict(p, anns, loop) ==
            IF loop.err # None THEN [err |-> loop.err]
            ELSE [err |-> None,
                  val |-> [key \in {"span", "text"} \cup p.fields |->
                              Column(anns, key, p.fields, sent_begin)]
                          @@ (IF p.unit = <<>> THEN <<>>
                              ELSE ("unit_span" :> loop.unit_span))]
        Loop(p, anns) ==
            Dict(p, anns,
                 AnnotationLoop(
                     anns, 1, p.fields \ {"span", "text", "context_span"},
                     IF p.unit = <<>> THEN <<>> ELSE <<data[p.unit[1]]["tid"]>>,
                     0))
        Body(p) ==
            IF p.err # None THEN [err |-> p.err]
            ELSE IF p.unit # <<>> /\ p.unit[1] \notin DOMAIN data
            THEN [err |-> "KeyError"]
            ELSE IF get_entries_raises(sent) THEN [err |-> "IndexError"]
            ELSE Loop(p, get_entries(a_type, sent, p.components))
    IN  Body(parse_request_args(a_type, a_args))

\* the loop over annotation_types of get_data: data after the sub-records
\* of types[i..] were added, or the error raised
RECURSIVE AddAnnotationData(_, _, _, _)
AddAnnotationData(types, i, data, sent) ==
    LET a_type == types[i][1]
        a_args == types[i][2]
        Add(r) ==
            IF r.err # None THEN [err |-> r.err]
            ELSE AddAnnotationData(types, i + 1, (a_type :> r.val) @@ data, sent)
    IN  IF i > Len(types) THEN [err |-> None, val |-> data]
        ELSE IF sent # <<>> /\ issubclass(a_type, "Sentence")
        THEN AddAnnotationData(types, i + 1, data, sent)
        ELSE IF a_type \in DOMAIN data THEN [err |-> "KeyError"]
        ELSE Add(generate_annotation_entry_data(a_type, a_args, data, sent))

(***************************************************************************)
(* get_data: the sub-record of a link kind.                                *)
(***************************************************************************)
\* Link.parent_type.__name__ and Link.child_type.__name__ of a link kind
ParentTypeName(kind) == "Token"
ChildTypeName(kind) == "Token"

\* every sequence that holds each element of S once
RECURSIVE Enumerations(_)
Enumerations(S) ==
    IF S = {} THEN {<<>>}
    ELSE UNION {{<<x>> \o rest : rest \in Enumerations(S \ {x})} : x \in S}

\* the link types a request can name
LinkTypeNames == LinkKinds \cup {"Link"}

\* the orders in which a run can visit the id sets of the link types.
\* get_entries builds the id set of the requested type anew in every call,
\* and a set of str is visited in an order that depends on the hashes of
\* its elements (PYTHONHASHSEED) and on how the set was built, so every
\* link type has an order of its own and every enumeration is possible
HashOrders == [LinkTypeNames -> Enumerations(get_ids_by_type("Link"))]

\* the order in which "for entry_id in valid_id" visits the set valid_id
\* when the ids are visited in the order given
SetOrder(S, order) == SelectSeq(order, LAMBDA tid : tid \in S)

\* np.where(tids == tid)[0][0]: the first position (from 0) of tid in tids,
\* as <<position>>, or <<>> when tid is not in tids (IndexError)
FirstPosition(tids, tid) ==
    IF \E i \in 1..Len(tids) : tids[i] = tid
    THEN <<SetMin({i \in 1..Len(tids) : tids[i] = tid}) - 1>>
    ELSE <<>>

\* what the loop body of _generate_link_entry_data appends for one link
LinkRow(link, plain, data) ==
    [f \in plain |-> GetAttr(link, f)]
       @@ ("parent" :> FirstPosition(data[ParentTypeName(link.kind)]["tid"],
                                     link.parent)[1])
       @@ ("child" :> FirstPosition(data[ChildTypeName(link.kind)]["tid"],
                                    link.child)[1])

\* the error the loop body raises for one entry that get_entries yields
LinkRowErr(link, plain, data) ==
    IF ~isinstance(link, "Link") THEN "AttributeError"
    ELSE IF ParentTypeName(link.kind) \notin DOMAIN data THEN "KeyError"
    ELSE IF ChildTypeName(link.kind) \notin DOMAIN data THEN "KeyError"
    ELSE IF FirstPosition(data[ParentTypeName(link.kind)]["tid"], link.parent) = <<>>
    THEN "IndexError"
    ELSE IF FirstPosition(data[ChildTypeName(link.kind)]["tid"], link.child) = <<>>
    THEN "IndexError"
    ELSE IF \E f \in plain : ~HasAttr(link, f) THEN "AttributeError"
    ELSE None

\* get_entries for a link kind, consumed by the loop of
\* _generate_link_entry_data: the rows of the entries ids[j..] that are in
\* range, or the first error raised
RECURSIVE LinkLoop(_, _, _, _, _)
LinkLoop(ids, j, plain, data, sent) ==
    LET Rest(entry, rest) ==
            IF rest.err # None THEN rest
            ELSE [err |-> None,
                  rows |-> <<LinkRow(entry, plain, data)>> \o rest.rows]
        Row(entry, err) ==
            IF err # None THEN [err |-> err]
            ELSE Rest(entry, LinkLoop(ids, j + 1, plain, data, sent))
        InRange(entry, err) ==
            IF sent # <<>> /\ err # None THEN [err |-> err]
            ELSE IF sent # <<>> /\ ~in_span(entry, SpanOf(sent[1]))
            THEN LinkLoop(ids, j + 1, plain, data, sent)
            ELSE Row(entry, LinkRowErr(entry, plain, data))
        Body(entry) ==
            InRange(entry, IF sent # <<>> THEN in_span_err(entry) ELSE None)
    IN  IF j > Len(ids) THEN [err |-> None, rows |-> <<>>]
        ELSE Body(get_entry_by_id(ids[j]))

\* DataPack._generate_link_entry_data(a_type, a_args, data, sent), where
\* the ids of a_type are visited in the order given
generate_link_entry_data(a_type, a_args, data, sent, order) ==
    LET Dict(p, loop) ==
            IF loop.err # None THEN [err |-> loop.err]
            ELSE [err |-> None,
                  val |-> [key \in p.fields \cup {"parent", "child"} |->
                              [i \in 1..Len(loop.rows) |-> loop.rows[i][key]]]]
        Body(p) ==
            IF p.err # None THEN [err |-> p.err]
            ELSE IF p.unit # <<>> THEN [err |-> "ValueError"]
            ELSE IF get_entries_raises(sent) THEN [err |-> "IndexError"]
            ELSE Dict(p, LinkLoop(SetOrder(ValidIds(a_type, p.components), order),
                                  1,
                                  p.fields \ {"parent", "child"}, data, sent))
    IN  Body(parse_request_args(a_type, a_args))

\* the loop over link_types of get_data: data after the sub-records of
\* types[i..] were added, or the error raised; orders gives the order in
\* which the ids of each link type are visited
RECURSIVE AddLinkData(_, _, _, _, _)
AddLinkData(types, i, data, sent, orders) ==
    LET l_type == types[i][1]
        l_args == types[i][2]
        Add(r) ==
            IF r.err # None THEN [err |-> r.err]
            ELSE AddLinkData(types, i + 1, (l_type :> r.val) @@ data, sent,
                             orders)
    IN  IF i > Len(types) THEN [err |-> None, val |-> data]
        ELSE IF l_type \in DOMAIN data THEN [err |-> "KeyError"]
        ELSE Add(generate_link_entry_data(l_type, l_args, data, sent,
                                          orders[l_type]))

\* the sub-records of the annotation kinds, then those of the link kinds
AddEntryData(annotation_types, link_types, data, sent, orders) ==
    LET Links(r) ==
            IF r.err # None THEN r
            ELSE AddLinkData(link_types, 1, r.val, sent, orders)
    IN  Links(AddAnnotationData(annotation_types, 1, data, sent))

(***************************************************************************)
(* get_data.                                                               *)
(***************************************************************************)
\* context_type.lower()
Lower(s) ==
    CASE s = "Document" -> "document"
      [] s = "Sentence" -> "sentence"
      [] OTHER -> s

\* annotation_types: the requested subclasses of Annotation, in order
AnnotationTypes(requests) ==
    IF ~requests.given THEN <<>>
    ELSE SelectSeq(requests.items, LAMBDA it : issubclass(it[1], "Annotation"))

\* link_types: the requested subclasses of Link, in order
LinkTypes(requests) ==
    IF ~requests.given THEN <<>>
    ELSE SelectSeq(requests.items, LAMBDA it : issubclass(it[1], "Link"))

\* a wrong document record, for comparison: its offset is 1
DocumentData_offset(requests, orders) ==
    LET r == AddEntryData(AnnotationTypes(requests), LinkTypes(requests),
                          ("context" :> text) @@ ("offset" :> 1), <<>>, orders)
    IN  IF r.err # None THEN [err |-> r.err, val |-> <<>>]
        ELSE [err |-> None, val |-> <<r.val>>]

\* get_data, context "document", from the first pull to the yield: the
\* record yielded, or the error raised before it
DocumentData(requests, orders) ==
    LET r == AddEntryData(AnnotationTypes(requests), LinkTypes(requests),
                          ("context" :> text) @@ ("offset" :> 0), <<>>, orders)
    IN  IF r.err # None THEN [err |-> r.err, val |-> <<>>]
        ELSE [err |-> None, val |-> <<r.val>>]

\* the requested sentence types, in order
SentenceTypes(requests) ==
    SelectSeq(AnnotationTypes(requests), LAMBDA it : issubclass(it[1], "Sentence"))

\* valid_sent_ids
ValidSentIds(sent_components) ==
    IF sent_components = <<>> \/ sent_components[1] = {}
    THEN get_ids_by_type("Sentence")
    ELSE get_ids_by_type("Sentence") \cap IdsByComponents(sent_components[1])

\* the annotations the sentence loop does not skip as non-matching
MatchingSentences(sent_type, sent_components) ==
    SelectSeq(annotations,
              LAMBDA sent : /\ sent.tid \in ValidSentIds(sent_components)
                            /\ isinstance(sent, sent_type))

\* "if skipped < offset: skipped += 1; continue" over the matching sentences
SkipOffset(sents, offset) ==
    IF offset >= Len(sents) THEN <<>> ELSE SubSeq(sents, offset + 1, Len(sents))

\* the body of the sentence loop for one sentence, up to the yield: the
\* record of the sentence, or the error raised while it is built
SentenceRecord(sent, sent_fields, requests, orders) ==
    IF \E f \in sent_fields : ~HasAttr(sent, f)
    THEN [err |-> "AttributeError"]
    ELSE AddEntryData(
            AnnotationTypes(requests), LinkTypes(requests),
            [f \in sent_fields |-> GetAttr(sent, f)]
               @@ ("context" :> TextOf(sent)) @@ ("offset" :> sent.begin),
            <<sent>>, orders)

(***************************************************************************)
(* The calls of get_data a caller makes.                                   *)
(***************************************************************************)
NoRequests == [given |-> FALSE]
EmptyRequests == [given |-> TRUE, items |-> <<>>]
RequestOf(a_type, a_args) == [given |-> TRUE, items |-> <<<<a_type, a_args>>>>]

\* the largest offset a caller passes
MaxOffset == 2

\* requests without fields: nothing, the sentences of component c1, the
\* tokens of each context, of any component and of component c1
DataRequests ==
    {NoRequests, EmptyRequests,
     RequestOf("Sentence", ArgsDict([component |-> {"c1"}])),
     RequestOf("Token", ArgsList({})),
     RequestOf("Token", ArgsDict([component |-> {"c1"}]))}

\* requests for fields: as a list, with a component filter, of a base class
FieldRequests ==
    {RequestOf(t, ArgsList({f})) : t \in {"Token", "Annotation"}, f \in FieldNames}
    \cup {RequestOf("Token", ArgsDict([fields |-> {f}, component |-> cs])) :
            f \in FieldNames, cs \in {{"c1"}, {"c1", "c2"}}}

RequestCalls ==
    [context_type : {"document"}, requests : FieldRequests, offset : {0}]

\* requests for several kinds, in the order of the dict
RequestItems(items) == [given |-> TRUE, items |-> items]

\* requests that refer to another requested kind: sentences with their
\* tokens as unit, dependencies with and without their tokens
UnitRequest ==
    RequestItems(<<<<"Token", ArgsList({})>>,
                   <<"Sentence", ArgsDict([unit |-> "Token"])>>>>)
LinkRequest ==
    RequestItems(<<<<"Token", ArgsList({})>>, <<"Dependency", ArgsList({})>>>>)
LinkOnlyRequest == RequestOf("Dependency", ArgsList({}))
LinkTypesRequest ==
    RequestItems(<<<<"Token", ArgsList({})>>, <<"Dependency", ArgsList({})>>,
                   <<"Link", ArgsList({})>>>>)

RecordRequests ==
    {UnitRequest, LinkRequest, LinkOnlyRequest, LinkTypesRequest,
     RequestOf("Sentence", ArgsDict([unit |-> "Token"]))}

RecordCalls ==
    [context_type : {"document", "sentence"}, requests : RecordRequests,
     offset : {0}]

\* annotations and links a caller constructs, all made by component c1
RecordInputs == {e \in AnnInputs \cup LinkInputs : e.component = "c1"}

\* the id filters the call c of get_data can run, as (type, components)
\* pairs in the order of the request: that of the sentence loop, which is on
\* Sentence whatever subclass is requested, and that of get_entries for
\* every other requested kind; a request without components filters nothing
FilterSites(c) ==
    LET items == AnnotationTypes(c.requests) \o LinkTypes(c.requests)
        Site(it) ==
            LET p == parse_request_args(it[1], it[2])
            IN  IF p.err # None \/ p.components = <<>> THEN <<>>
                ELSE IF Lower(c.context_type) = "sentence"
                        /\ issubclass(it[1], "Sentence")
                THEN IF p.components[1] = {} THEN <<>>
                     ELSE <<<<"Sentence", p.components[1]>>>>
                ELSE <<<<it[1], p.components[1]>>>>
        RECURSIVE Sites(_)
        Sites(i) == IF i > Len(items) THEN <<>> ELSE Site(items[i]) \o Sites(i + 1)
    IN  IF Lower(c.context_type) \in {"document", "sentence"}
        THEN Sites(1) ELSE <<>>

\* the index after the id filters sites[i..]
RECURSIVE IndexAfterFilters(_, _, _)
IndexAfterFilters(idx, sites, i) ==
    IF i > Len(sites) THEN idx
    ELSE IndexAfterFilters(FilterIds(idx, sites[i][1], sites[i][2]), sites, i + 1)

\* DataPack.add_entry(entry) for an annotation or a link; a record that
\* shows a link between two tokens of a sentence takes one entry more
AddRecordEntry ==
    \E entry \in RecordInputs :
        /\ NumEntries < MaxEntries + 1
        /\ InsertEntry(entry, "add_entry")

(***************************************************************************)
(* get_data is a generator function: the call makes a generator and runs   *)
(* nothing of the body; every next() runs the body up to the next yield,   *)
(* to its end (StopIteration) or to the error raised.                      *)
(***************************************************************************)
\* the requests of the calls in sentence context
PullRequests ==
    {NoRequests,
     RequestOf("Sentence", ArgsDict([component |-> {"c1"}])),
     RequestOf("Token", ArgsList({}))}
PullOffsets == {0, 1}

PullCalls ==
    [context_type : {"sentence"}, requests : PullRequests, offset : PullOffsets]

\* the annotations inserted between the pulls: sentences, and one token
PullInputs ==
    {a \in AnnInputs :
        \/ a.kind = "Sentence"
        \/ a.kind = "Token" /\ a.component = "c1" /\ a.begin = 0 /\ a.end = 1}

AddPullEntry == AddEntryFrom(PullInputs)

\* calls with and without component filters
FilterCalls ==
    [context_type : {"document", "sentence"},
     requests : PullRequests
                \cup {RequestOf("Token", ArgsDict([component |-> {"c1"}]))},
     offset : {0}]

\* calls in document context for nothing, and in a context get_data does
\* not know
DocumentCalls ==
    [context_type : {"document", "Document", "paragraph"},
     requests : {NoRequests, EmptyRequests}, offset : {0, 1}]

\* calls in sentence context, with offsets
SentenceCalls ==
    [context_type : {"sentence"}, requests : DataRequests,
     offset : 0..MaxOffset]

\* gen = pack.get_data(context_type, requests, offset): a generator is made,
\* nothing of the body of get_data has run yet
CallGetDataFrom(calls) ==
    \E c \in calls :
        /\ generator.state \in {"none", "done"}
        /\ generator' = [NoGenerator EXCEPT !.state = "created",
                                            !.context_type = c.context_type,
                                            !.requests = c.requests,
                                            !.offset = c.offset]
        /\ ret' = [op |-> "generator", err |-> None, was |-> generator.state]
        /\ UNCHANGED <<meta, text, annotations, links, groups, index, internal_metas>>

CallGetData == CallGetDataFrom(PullCalls)
CallDocumentData == CallGetDataFrom(DocumentCalls)
CallSentenceData == CallGetDataFrom(SentenceCalls)
CallFieldData == CallGetDataFrom(RequestCalls)
CallRecordData == CallGetDataFrom(RecordCalls)
CallFilterData == CallGetDataFrom(FilterCalls)

\* the generator g ended by the exception err, nothing yielded
Ended(g, err) ==
    [g |-> [g EXCEPT !.state = "done", !.err = err], val |-> <<>>]

\* the first pull in document context: the body runs to "yield data" (line
\* 504) or to the error raised before it
StartDocument(g, orders) ==
    LET Yielded(r) ==
            IF r.err # None THEN Ended(g, r.err)
            ELSE [g |-> [g EXCEPT !.state = "running"], val |-> r.val]
    IN  Yielded(DocumentData(g.requests, orders))

\* the body of get_data in sentence context up to the sentence loop, run by
\* the first pull: the generator with the locals of the loop, or ended by
\* an error
StartGenerator(g) ==
    LET stypes == SentenceTypes(g.requests)
        sent_type == IF stypes = <<>> THEN "Sentence" ELSE stypes[Len(stypes)][1]
        sent_args == IF stypes = <<>> THEN ArgsNone ELSE stypes[Len(stypes)][2]
        p == parse_request_args(sent_type, sent_args)
    IN  IF Len(stypes) > 1 THEN [g EXCEPT !.state = "done", !.err = "KeyError"]
        ELSE IF p.err # None THEN [g EXCEPT !.state = "done", !.err = p.err]
        ELSE [g EXCEPT
                !.state = "running",
                !.copy = annotations,
                !.valid_sent_ids = ValidSentIds(p.components),
                !.sent_type = sent_type,
                !.sent_fields = p.fields,
                !.expected =
                    SkipOffset(MatchingSentences(sent_type, p.components),
                               g.offset)]

\* a wrong loop, for comparison: it iterates the annotations of the pack
IteratedList_live(copy, live) == live

\* "for sent in list(self.annotations)": the loop iterates the copy made
\* when it was entered
IteratedList(copy, live) == copy

\* the loop from position pos of list on, up to the next sentence that is
\* neither non-matching nor skipped for the offset
RECURSIVE NextSentence(_, _, _, _)
NextSentence(g, list, pos, skipped) ==
    IF pos >= Len(list) THEN [found |-> FALSE, pos |-> pos, skipped |-> skipped]
    ELSE IF \/ list[pos + 1].tid \notin g.valid_sent_ids
            \/ ~isinstance(list[pos + 1], g.sent_type)
    THEN NextSentence(g, list, pos + 1, skipped)
    ELSE IF skipped < g.offset
    THEN NextSentence(g, list, pos + 1, skipped + 1)
    ELSE [found |-> TRUE, pos |-> pos + 1, skipped |-> skipped]

\* the generator, running, is resumed. In document context it was
\* suspended at the only yield and the body ends; in sentence context the
\* loop goes on to the next yield (line 578), to its end or to the error
\* raised while the record is built. The result is the generator
\* afterwards and the record yielded, <<>> if none
ResumeGenerator(g, orders) ==
    LET list == IteratedList(g.copy, annotations)
        At(n) ==
            LET moved == [g EXCEPT !.pos = n.pos, !.skipped = n.skipped]
                Yielded(r) ==
                    IF r.err # None THEN Ended(moved, r.err)
                    ELSE [g |-> [moved EXCEPT
                                    !.produced = Append(@, list[n.pos])],
                          val |-> <<r.val>>]
            IN  IF ~n.found THEN Ended(moved, "StopIteration")
                ELSE Yielded(SentenceRecord(list[n.pos], g.sent_fields,
                                            g.requests, orders))
    IN  IF Lower(g.context_type) = "document" THEN Ended(g, "StopIteration")
        ELSE At(NextSentence(g, list, g.pos, g.skipped))

\* the first pull of the generator g
FirstPull(g, orders) ==
    LET Loop(started) ==
            IF started.state = "done" THEN [g |-> started, val |-> <<>>]
            ELSE ResumeGenerator(started, orders)
    IN  CASE Lower(g.context_type) = "document" -> StartDocument(g, orders)
          [] Lower(g.context_type) = "sentence" -> Loop(StartGenerator(g))
          [] OTHER -> Ended(g, "StopIteration")

\* the id filters (get_entries, lines 753-760) that run while the
\* sub-records of items[i..] are added to data, in order. The sub-record
\* of an item is built as get_data builds it; its filter runs when the
\* request carries a component filter and get_entries is reached and gets
\* past range_end (lines 749-750): a request that is refused, a missing
\* unit and the IndexError of an empty container come before the filter.
\* The item whose sub-record fails is the last one that is looked at
RECURSIVE RecordSites(_, _, _, _, _)
RecordSites(items, i, data, sent, orders) ==
    LET a_type == items[i][1]
        a_args == items[i][2]
        link == issubclass(a_type, "Link")
        Site(p) ==
            IF \/ p.err # None
               \/ p.unit # <<>> /\ (link \/ p.unit[1] \notin DOMAIN data)
               \/ get_entries_raises(sent)
               \/ p.components = <<>>
            THEN <<>>
            ELSE <<<<a_type, p.components[1]>>>>
        Add(site, r) ==
            IF r.err # None THEN site
            ELSE site \o RecordSites(items, i + 1, (a_type :> r.val) @@ data,
                                     sent, orders)
    IN  IF i > Len(items) THEN <<>>
        ELSE IF ~link /\ sent # <<>> /\ issubclass(a_type, "Sentence")
        THEN RecordSites(items, i + 1, data, sent, orders)
        ELSE IF a_type \in DOMAIN data THEN <<>>
        ELSE Add(Site(parse_request_args(a_type, a_args)),
                 IF link
                 THEN generate_link_entry_data(a_type, a_args, data, sent,
                                               orders[a_type])
                 ELSE generate_annotation_entry_data(a_type, a_args, data,
                                                     sent))

\* the id filters a pull of the generator g runs, in order. The first pull
\* in document context builds the one record. In sentence context the
\* first pull filters the sentence ids (lines 526-531) unless the request
\* was refused before, and every pull that finds a next sentence builds
\* its record, unless a sentence field is missing (line 548). A pull that
\* finds no sentence, and any pull of a generator that has ended, runs none
PullSites(g, orders) ==
    LET items == AnnotationTypes(g.requests) \o LinkTypes(g.requests)
        OfSentence ==
            SelectSeq(FilterSites([context_type |-> g.context_type,
                                   requests |-> g.requests]),
                      LAMBDA site : site[1] = "Sentence")
        OfRecord(gg, sent) ==
            IF \E f \in gg.sent_fields : ~HasAttr(sent, f) THEN <<>>
            ELSE RecordSites(
                    items, 1,
                    [f \in gg.sent_fields |-> GetAttr(sent, f)]
                       @@ ("context" :> TextOf(sent))
                       @@ ("offset" :> sent.begin),
                    <<sent>>, orders)
        OfNext(gg) ==
            LET list == IteratedList(gg.copy, annotations)
                At(n) == IF n.found THEN OfRecord(gg, list[n.pos]) ELSE <<>>
            IN  At(NextSentence(gg, list, gg.pos, gg.skipped))
        First(started) ==
            IF started.state # "running" THEN <<>>
            ELSE OfSentence \o OfNext(started)
    IN  CASE g.state = "created" /\ Lower(g.context_type) = "document" ->
                RecordSites(items, 1,
                            ("context" :> text) @@ ("offset" :> 0), <<>>,
                            orders)
          [] g.state = "created" /\ Lower(g.context_type) = "sentence" ->
                First(StartGenerator(g))
          [] g.state = "running" /\ Lower(g.context_type) = "sentence" ->
                OfNext(g)
          [] OTHER -> <<>>

\* next(gen); ret keeps the error raised, StopIteration included, the state
\* of the generator before the pull and the record yielded, <<>> if none.
\* The id set of every link type is built anew in the pull, so the pull
\* visits each of them in an order of its own
Pull ==
    /\ generator.state # "none"
    /\ \E orders \in HashOrders :
          LET Result(r) ==
                  /\ generator' = r.g
                  /\ ret' = [op |-> "next",
                             err |-> IF r.g.state = "done" THEN r.g.err
                                     ELSE None,
                             was |-> generator.state,
                             val |-> r.val]
                  /\ index' = IndexAfterFilters(
                                  index, PullSites(generator, orders), 1)
          IN  CASE generator.state = "done" ->
                       Result(Ended(generator, "StopIteration"))
                [] generator.state = "created" ->
                       Result(FirstPull(generator, orders))
                [] generator.state = "running" ->
                       Result(ResumeGenerator(generator, orders))
    /\ UNCHANGED <<meta, text, annotations, links, groups, internal_metas>>

(***************************************************************************)
(* DataIndex.have_overlap.                                                 *)
(***************************************************************************)
\* the check of one operand of have_overlap: the error raised, if any, and
\* the annotation the operand stands for
OverlapOperand(idx, arg) ==
    IF IsStr(arg)
    THEN IF arg.str \notin DOMAIN idx.entry_index
         THEN [err |-> "KeyError", entry |-> arg]
         ELSE IF ~isinstance(idx.entry_index[arg.str], "Annotation")
         THEN [err |-> "TypeError", entry |-> arg]
         ELSE [err |-> None, entry |-> idx.entry_index[arg.str]]
    ELSE IF ~isinstance(arg, "Annotation")
         THEN [err |-> "TypeError", entry |-> arg]
         ELSE [err |-> None, entry |-> arg]

\* a wrong overlap test, for comparison: the intervals are taken as closed
have_overlap_closed(idx, entry1, entry2) ==
    LET o1 == OverlapOperand(idx, entry1)
        o2 == OverlapOperand(idx, entry2)
    IN  IF o1.err # None THEN [err |-> o1.err, val |-> FALSE]
        ELSE IF o2.err # None THEN [err |-> o2.err, val |-> FALSE]
        ELSE [err |-> None,
              val |-> ~(o1.entry.begin > o2.entry.end
                        \/ o1.entry.end < o2.entry.begin)]

\* DataIndex.have_overlap(entry1, entry2)
have_overlap(idx, entry1, entry2) ==
    LET o1 == OverlapOperand(idx, entry1)
        o2 == OverlapOperand(idx, entry2)
    IN  IF o1.err # None THEN [err |-> o1.err, val |-> FALSE]
        ELSE IF o2.err # None THEN [err |-> o2.err, val |-> FALSE]
        ELSE [err |-> None,
              val |-> ~(o1.entry.begin >= o2.entry.end
                        \/ o1.entry.end <= o2.entry.begin)]

\* the offsets of the annotations handed to have_overlap
OverlapOffsets == {0, 4, 5, 10}

\* annotations a caller constructs, the empty span included
OverlapInputs ==
    {a \in {[kind |-> "Token", begin |-> b, end |-> e, component |-> "c1",
              pos_tag |-> "NN"] : b \in OverlapOffsets, e \in OverlapOffsets} :
        a.begin <= a.end}

\* a new pack and two annotations about to be compared
InitOverlap ==
    /\ text = <<>>
    /\ annotations = <<>>
    /\ links = <<>>
    /\ groups = <<>>
    /\ index = NewIndex
    /\ meta = NewMeta
    /\ internal_metas = [k \in ConcreteKinds |-> NewInternalMeta]
    /\ generator = NoGenerator
    /\ ret \in [op : {"args"}, err : {None},
                entry1 : OverlapInputs, entry2 : OverlapInputs]

\* index.have_overlap(entry1, entry2) on the two annotations
HaveOverlap ==
    /\ ret.op = "args"
    /\ ret' = [op |-> "have_overlap",
               err |-> have_overlap(index, ret.entry1, ret.entry2).err,
               entry1 |-> ret.entry1, entry2 |-> ret.entry2,
               val |-> have_overlap(index, ret.entry1, ret.entry2).val]
    /\ UNCHANGED <<meta, generator, text, annotations, links, groups, index, internal_metas>>

(***************************************************************************)
(* Specifications.                                                         *)
(***************************************************************************)
\* the entry store with save and load
Next ==
    \/ AddEntry
    \/ AddOrGetEntry
    \/ SaveLoad

Spec == Init /\ [][Next]_vars

\* the entry store with the relation lookups
NextRelation ==
    \/ AddEntry
    \/ GetLinksByParent
    \/ GetLinksByChild
    \/ GetGroupsByMember

SpecRelation == Init /\ [][NextRelation]_vars

\* a pack that is only ever filled by add_entry
SpecAddEntry == Init /\ [][AddEntry]_vars

\* a pack of annotations over a text, read by get_data in document context
NextDocument ==
    \/ AddAnnotation
    \/ SetText
    \/ CallDocumentData
    \/ Pull

SpecDocument == Init /\ [][NextDocument]_vars

\* a pack of annotations over a text, read by get_data in sentence context
NextData ==
    \/ AddAnnotation
    \/ SetText
    \/ CallSentenceData
    \/ Pull

SpecData == Init /\ [][NextData]_vars

\* components record the fields they made; get_data asks for fields
NextRequest ==
    \/ AddWholeTextAnnotation
    \/ RecordFields
    \/ CallFieldData
    \/ Pull

SpecRequest == Init /\ [][NextRequest]_vars

\* have_overlap, applied to two annotations
SpecOverlap == InitOverlap /\ [][HaveOverlap]_vars

\* a pack of annotations, links and groups, asked about spans
NextSpan ==
    \/ AddEntry
    \/ InSpan

SpecSpan == Init /\ [][NextSpan]_vars

\* a pack of annotations and links, read by get_data with requests that
\* refer to other requested kinds
NextRecord ==
    \/ AddRecordEntry
    \/ CallRecordData
    \/ Pull

SpecRecord == Init /\ [][NextRecord]_vars

\* conditional inserts with the relation lookups that build the link and
\* group indexes
NextGet ==
    \/ AddOrGetEntry
    \/ GetLinksByParent
    \/ GetGroupsByMember

SpecGet == Init /\ [][NextGet]_vars

\* conditional inserts of annotations
SpecGetAnnotation == Init /\ [][AddOrGetAnnotation]_vars

\* inserts, relation lookups and the public switches of the index
NextSwitch ==
    \/ AddEntry
    \/ GetLinksByParent
    \/ GetGroupsByMember
    \/ TurnLinkIndexSwitch
    \/ TurnGroupIndexSwitch

SpecSwitch == Init /\ [][NextSwitch]_vars

\* DataPack.add_entry(entry) for an entry of any kind made by component
\* c1; a lookup that meets a third entry takes one entry more
AddLookupEntry ==
    \E entry \in {e \in EntryInputs : e.component = "c1"} :
        /\ NumEntries < MaxEntries + 1
        /\ InsertEntry(entry, "add_entry")

\* inserts of entries of any kind and the three relation lookups
NextLookup ==
    \/ AddLookupEntry
    \/ GetLinksByParent
    \/ GetLinksByChild
    \/ GetGroupsByMember

SpecLookup == Init /\ [][NextLookup]_vars

\* inserts, relation lookups and save and load
NextLoad ==
    \/ AddEntry
    \/ GetLinksByParent
    \/ GetGroupsByMember
    \/ SaveLoad

SpecLoad == Init /\ [][NextLoad]_vars

\* inserts of entries of any class, the three variants or not
NextKind ==
    \/ AddAnyEntry
    \/ AddOrGetAnyEntry

SpecKind == Init /\ [][NextKind]_vars

\* calls of set_meta
SpecMeta == Init /\ [][SetMeta]_vars

\* annotations inserted between the pulls of a generator of get_data
NextPull ==
    \/ AddPullEntry
    \/ CallGetData
    \/ Pull

SpecPull == Init /\ [][NextPull]_vars

\* annotations of two components, read by get_data with component filters
NextFilter ==
    \/ AddPullEntry
    \/ CallFilterData
    \/ Pull

SpecFilter == Init /\ [][NextFilter]_vars

(***************************************************************************)
(* Properties of the entry store.                                          *)
(***************************************************************************)
\* the tids add_entry can hand out within the bound
TidUniverse == {ToString(n) : n \in 0..MaxEntries}

\* C1: after any sequence of add_entry calls, get_entry_by_id(e.tid) returns
\* the entry e itself, for every entry e that was inserted.
C1_LookupReturnsInserted ==
    \A e \in StoredEntries : get_entry_by_id(e.tid) = e

\* C2: every stored entry has a non-empty tid, and no two distinct stored
\* entries, of whatever kinds and containers, have the same tid.
C2_UniqueTids ==
    /\ \A e \in StoredEntries : e.tid # ""
    /\ \A e1, e2 \in StoredEntries : e1 # e2 => e1.tid # e2.tid

\* the last two calls were add_or_get_entry, with entries that compare equal
TwoEqualCalls ==
    /\ ret.op = "add_or_get_entry"
    /\ ret.prev # <<>>
    /\ EntryEq(ret.prev[1].val, ret.val)

\* C3: two calls of add_or_get_entry with equal entries return an entry
\* with the same tid, and together they grow the store by exactly one.
C3_TwoCallsGrowByOne ==
    TwoEqualCalls =>
        /\ ret.val.tid = ret.prev[1].val.tid
        /\ ret.prev[1].grew + ret.grew = 1

\* C4: the annotation container iterates in non-decreasing order of
\* span.begin, ties broken by non-decreasing span.end, however the
\* annotations were inserted and after a save and load.
C4_AnnotationsSorted ==
    \A i, j \in 1..Len(annotations) :
        i < j =>
            \/ annotations[i].begin < annotations[j].begin
            \/ /\ annotations[i].begin = annotations[j].begin
               /\ annotations[i].end <= annotations[j].end

\* C4 witness: a loaded pack in which an annotation inserted later (tid "1")
\* stands before one of its kind inserted earlier (tid "0")
C4_Witness ==
    /\ ret.op = "load"
    /\ \E i, j \in 1..Len(annotations) :
          /\ i < j
          /\ annotations[i].kind = annotations[j].kind
          /\ annotations[i].tid = "1"
          /\ annotations[j].tid = "0"
          /\ AnnLess(annotations[i], annotations[j])

\* the index of a pack with the same entries and no relation lookup yet
LazyIndex ==
    [index EXCEPT !.link_index_switch = FALSE, !.link_index = <<>>,
                  !.group_index_switch = FALSE, !.group_index = {}]

\* C5: a parent, child or member lookup on the pack, whose relation index
\* was switched on by an earlier lookup and updated by each insert since,
\* returns the same set as a first lookup on a pack with the same entries.
C5_LazyEqualsEager ==
    \A tid \in TidUniverse :
        /\ \A as_parent \in BOOLEAN :
              /\ link_index(index, tid, as_parent).tids
                    = link_index(LazyIndex, tid, as_parent).tids
              /\ link_index(index, tid, as_parent).err
                    = link_index(LazyIndex, tid, as_parent).err
        /\ group_index(index, tid).tids = group_index(LazyIndex, tid).tids

\* C5 witness: a link was inserted while the link index was switched on,
\* and its parent has a link in the index
C5_Witness ==
    /\ ret.op = "add_entry"
    /\ isinstance(ret.val, "Link")
    /\ index.link_index_switch
    /\ ret.val.tid \in link_index(index, ret.val.parent, TRUE).tids
    /\ Len(links) = 1

\* C6: save followed by load keeps the text and the entries, and every
\* identifier, type and component lookup answers as it did before.
C6_RoundTrip ==
    [][ret'.op = "load" =>
          /\ text' = text
          /\ StoredEntries' = StoredEntries
          /\ \A tid \in TidUniverse : get_entry_by_id(tid)' = get_entry_by_id(tid)
          /\ \A tp \in AllTypes :
                /\ get_ids_by_type(tp)' = get_ids_by_type(tp)
                /\ get_entries_by_type(tp)' = get_entries_by_type(tp)
          /\ \A c \in Components :
                get_ids_by_compoent(c)' = get_ids_by_compoent(c)]_vars

(***************************************************************************)
(* Properties of get_data.                                                 *)
(***************************************************************************)
\* the request of a call asks for nothing: it is None or an empty dict
IsEmptyRequest(requests) == ~requests.given \/ requests.items = <<>>

\* the step just taken was a pull, next(gen), of the generator of a call in
\* the context given; generator holds the arguments of the call, ret the
\* error or the record of the pull, and the pack is as the pull saw it
PulledIn(context) ==
    /\ ret.op = "next"
    /\ Lower(generator.context_type) = context

\* the pull was the first of its generator
FirstPulledIn(context) == PulledIn(context) /\ ret.was = "created"

\* C7: get_data with context "document" and an empty or absent request
\* yields exactly one record, whose context is the full text and whose
\* offset is 0, whatever the pack holds: the first pull yields that record
\* and every later pull ends the sequence.
C7_DocumentRecord ==
    PulledIn("document") /\ IsEmptyRequest(generator.requests) =>
        IF ret.was = "created"
        THEN /\ ret.err = None
             /\ ret.val = <<("context" :> text) @@ ("offset" :> 0)>>
        ELSE /\ ret.err = "StopIteration"
             /\ ret.val = <<>>

\* C7 witness: the first pull of such a call was made on a pack that holds
\* a text and two annotations, and yielded a record with that text
C7_Witness ==
    /\ FirstPulledIn("document")
    /\ IsEmptyRequest(generator.requests)
    /\ text # <<>>
    /\ Len(annotations) = 2
    /\ ret.val # <<>>
    /\ ret.val[1]["context"] = text

\* the component filter of the sentence request of a call, if it has one
SentenceFilter(requests) ==
    IF requests.given /\ requests.items # <<>>
       /\ requests.items[1][1] = "Sentence"
    THEN DictGet(requests.items[1][2], "component")
    ELSE <<>>

\* the matching sentences of a call among the annotations anns, in
\* ascending span order: the sentences, and with a component filter those
\* of them that an allowed component made
Matching(requests, anns) ==
    SelectSeq(anns,
              LAMBDA a : /\ a.kind = "Sentence"
                         /\ \/ SentenceFilter(requests) = <<>>
                            \/ a.component \in SentenceFilter(requests)[1])

\* C8: get_data with context "sentence" and offset k yields no record for
\* the first k matching sentences and one record for each of the others,
\* in ascending span order, with context = text[begin:end] and offset =
\* begin of its sentence; it yields nothing when at most k sentences match.
\* The matching sentences are those of the pack at the first pull; the n-th
\* record pulled is that of the (k+n)-th of them, and the sequence ends
\* after the last of them and not before.
C8_SentenceOffset ==
    PulledIn("sentence") =>
        LET m == Matching(generator.requests, generator.copy)
            k == generator.offset
            n == Len(generator.produced)
        IN  IF ret.val # <<>>
            THEN /\ k + n <= Len(m)
                 /\ generator.produced[n] = m[k + n]
                 /\ ret.val[1]["context"]
                       = Slice(text, m[k + n].begin, m[k + n].end)
                 /\ ret.val[1]["offset"] = m[k + n].begin
            ELSE /\ ret.err = "StopIteration"
                 /\ ret.was # "done" => k + n >= Len(m)

(***************************************************************************)
(* Properties of the request validation.                                   *)
(***************************************************************************)
\* the component filter of a request for one type, as a set of components
AllowedComponents(a_args) ==
    IF DictGet(a_args, "component") = <<>> THEN Components
    ELSE DictGet(a_args, "component")[1]

\* field was recorded through record_fields, for a_type or a subtype of
\* it, by at least one of the allowed components
Declared(a_type, a_args, field) ==
    \E k \in ConcreteKinds :
        /\ issubclass(k, a_type)
        /\ \E c \in AllowedComponents(a_args) :
              field \in internal_metas[k].fields_created[c]

\* C9: a get_data request for a field that no allowed component ever
\* declared for the kind fails with KeyError, whatever was recorded before.
\* Stated for the first pull of a call in context "document" on a pack
\* that holds annotations.
C9_UndeclaredFieldRaises ==
    LET a_type == generator.requests.items[1][1]
        a_args == generator.requests.items[1][2]
    IN  /\ FirstPulledIn("document")
        /\ generator.requests \in FieldRequests
        /\ annotations # <<>>
        /\ \E f \in RequestedFields(a_args) : ~Declared(a_type, a_args, f)
        => ret.err = "KeyError"

\* C10: the validation accepts a requested kind when every requested field
\* was recorded by at least one allowed component, even if another allowed
\* component never recorded it.
C10_AcceptsIfDeclaredByOne ==
    \A c \in RequestCalls :
        LET a_type == c.requests.items[1][1]
            a_args == c.requests.items[1][2]
        IN  (\A f \in RequestedFields(a_args) : Declared(a_type, a_args, f))
            => parse_request_args(a_type, a_args).err = None

(***************************************************************************)
(* Properties of the span predicates.                                      *)
(***************************************************************************)
\* the half-open intervals [a.begin, a.end) and [b.begin, b.end) have an
\* offset in common
Intersect(a, b) ==
    \E x \in 0..10 : /\ a.begin <= x /\ x < a.end
                     /\ b.begin <= x /\ x < b.end

\* C11 (as claimed): have_overlap on two annotations returns true if and
\* only if their half-open intervals intersect.
C11_OverlapIffIntersect ==
    ret.op = "have_overlap" =>
        /\ ret.err = None
        /\ ret.val <=> Intersect(ret.entry1, ret.entry2)

\* C11 (amended): have_overlap on two annotations of non-empty span
\* returns true if and only if their half-open intervals intersect; [0,5)
\* and [5,10) do not overlap, [0,5) and [4,10) do, [0,5) and [0,5) do.
C11_OverlapIffIntersectNonEmpty ==
    ret.op = "have_overlap" =>
        /\ ret.err = None
        /\ (ret.entry1.begin < ret.entry1.end /\ ret.entry2.begin < ret.entry2.end)
              => (ret.val <=> Intersect(ret.entry1, ret.entry2))
        /\ (<<ret.entry1.begin, ret.entry1.end>> = <<0, 5>>
              /\ <<ret.entry2.begin, ret.entry2.end>> = <<5, 10>>) => ~ret.val
        /\ (<<ret.entry1.begin, ret.entry1.end>> = <<0, 5>>
              /\ <<ret.entry2.begin, ret.entry2.end>> \in {<<4, 10>>, <<0, 5>>})
              => ret.val

\* C11 witness: [0,5) and [5,10) were compared and found not to overlap
C11_Witness ==
    /\ ret.op = "have_overlap"
    /\ <<ret.entry1.begin, ret.entry1.end>> = <<0, 5>>
    /\ <<ret.entry2.begin, ret.entry2.end>> = <<5, 10>>
    /\ ~ret.val

\* the stored annotations a link or group refers to: the tokens of a
\* link's parent and child tids, the annotations of a group's member tids
ReferredAnnotations(e) ==
    IF e.kind \in LinkKinds
    THEN {a \in Range(annotations) : a.kind = "Token" /\ a.tid \in {e.parent, e.child}}
    ELSE {a \in Range(annotations) : a.tid \in e.members}

\* the entry's extent is stated by the claim: an annotation; a link; a
\* group with members, each member tid naming one stored annotation
HasClaimedExtent(e) ==
    \/ isinstance(e, "Annotation")
    \/ isinstance(e, "Link")
    \/ /\ isinstance(e, "Group")
       /\ e.members # {}
       /\ Cardinality(ReferredAnnotations(e)) = Cardinality(e.members)

\* the extent lies within span, inclusively at both ends
ExtentWithin(e, span) ==
    IF isinstance(e, "Annotation")
    THEN e.begin >= span.begin /\ e.end <= span.end
    ELSE \A a \in ReferredAnnotations(e) :
            a.begin >= span.begin /\ a.end <= span.end

\* C12: in_span(entry, span) returns true if and only if the entry's extent
\* lies within span inclusively at both ends: an annotation's own span, for
\* a link both its parent's and its child's span, for a group with members
\* the spans of all its members.
C12_InSpanIffExtentWithin ==
    (ret.op = "in_span" /\ ~IsStr(ret.arg) /\ HasClaimedExtent(ret.arg)) =>
        /\ ret.err = None
        /\ ret.val <=> ExtentWithin(ret.arg, ret.span)

(***************************************************************************)
(* Properties of the type lookups.                                         *)
(***************************************************************************)
\* the stored entries whose concrete kind is tp or a subtype of tp
StoredOfType(tp) == {e \in StoredEntries : issubclass(e.kind, tp)}

\* C13: get_ids_by_type(K) returns exactly the tids of the stored entries
\* whose concrete kind is K or a subtype of K, and get_entries_by_type(K)
\* returns exactly those entries.
C13_TypeLookupsExact ==
    \A tp \in AllTypes :
        /\ get_ids_by_type(tp) = {e.tid : e \in StoredOfType(tp)}
        /\ get_entries_by_type(tp) = {StoredOfType(tp)}

(***************************************************************************)
(* Properties of the sub-records of get_data.                              *)
(***************************************************************************)
\* the stored entries of kind a_type (or a subtype) made by an allowed
\* component, whose span lies within the span of sent, in container order
QualifyingAnnotations(a_type, a_args, sent) ==
    SelectSeq(annotations,
              LAMBDA a : /\ issubclass(a.kind, a_type)
                         /\ a.component \in AllowedComponents(a_args)
                         /\ a.begin >= sent.begin /\ a.end <= sent.end)

\* the requests for tokens
TokenRequests ==
    {r \in DataRequests : r.given /\ r.items # <<>> /\ r.items[1][1] = "Token"}

\* C14: in sentence context the sub-record of a requested non-sentence
\* annotation kind holds one element per stored entry of that kind, made by
\* an allowed component and within the sentence's span, in ascending span
\* order, and no other element. Stated for every record pulled from a call
\* that requests tokens; no such pull raises an error.
C14_SubRecordExact ==
    PulledIn("sentence") /\ generator.requests \in TokenRequests =>
        /\ ret.err \in {None, "StopIteration"}
        /\ ret.val # <<>> =>
              LET sent == generator.produced[Len(generator.produced)]
                  exp == QualifyingAnnotations(
                            "Token", generator.requests.items[1][2], sent)
                  sub == ret.val[1]["Token"]
              IN  /\ sub["tid"] = [i \in 1..Len(exp) |-> exp[i].tid]
                  /\ sub["span"]
                        = [i \in 1..Len(exp) |-> <<exp[i].begin, exp[i].end>>]

\* the stored annotation at position i (from 0) of the emitted tid array of
\* a kind is within the span of the annotation a
UnitWithin(sub, i, a) ==
    LET span == sub["span"][i + 1]
    IN  span[1] >= a.begin /\ span[2] <= a.end

\* C15: with a unit emitted earlier in the record, the unit_span of every
\* emitted entry is the half-open range [b, e) of the maximal contiguous
\* run of unit entries within the entry's span, also when the run ends at
\* the last unit entry, and the computation raises no index error. Stated
\* for the first pull of a call in document context for the tokens and the
\* sentences with the tokens as unit, on a pack with a sentence that has a
\* token within its span.
C15_UnitSpanMaximalRun ==
    (/\ FirstPulledIn("document")
     /\ generator.requests = UnitRequest
     /\ \E a \in Range(annotations) :
           /\ a.kind = "Sentence"
           /\ \E t \in Range(annotations) :
                 t.kind = "Token" /\ t.begin >= a.begin /\ t.end <= a.end) =>
        LET out == ret
        IN  /\ out.err # "IndexError"
            /\ out.err = None =>
                  LET units == out.val[1]["Token"]
                      sub == out.val[1]["Sentence"]
                      n == Len(units["tid"])
                  IN  \A j \in 1..Len(sub["tid"]) :
                         LET b == sub["unit_span"][j][1]
                             e == sub["unit_span"][j][2]
                             a == [begin |-> sub["span"][j][1],
                                   end |-> sub["span"][j][2]]
                         IN  /\ 0 <= b /\ b < e /\ e <= n
                             /\ \A i \in b..(e - 1) : UnitWithin(units, i, a)
                             /\ e < n => ~UnitWithin(units, e, a)

\* the stored link of a tid, and the stored token of a tid
LinkOfTid(tid) == CHOOSE l \in Range(links) : l.tid = tid
TokenOfTid(tid) ==
    CHOOSE a \in Range(annotations) : a.kind = "Token" /\ a.tid = tid

\* position i (from 0) of the emitted token arrays holds the token
PositionHolds(tokens, i, token) ==
    /\ i + 1 \in 1..Len(tokens["tid"])
    /\ tokens["tid"][i + 1] = token.tid
    /\ tokens["span"][i + 1] = <<token.begin, token.end>>

\* C16: for every link emitted in a link sub-record, the parent and child
\* values are positions in the tid arrays of the link's parent and child
\* kind, emitted earlier in the record, that hold the link's parent and
\* child identifiers, and the entries at those positions are the link's
\* actual parent and child. Stated for every record pulled from a call
\* for the tokens and then the links.
C16_LinkPositions ==
    /\ ret.op = "next"
    /\ generator.requests \in {LinkRequest, LinkTypesRequest}
    /\ ret.val # <<>>
    => \A l_type \in LinkTypeNames \cap DOMAIN ret.val[1] :
          LET sub == ret.val[1][l_type]
              tokens == ret.val[1]["Token"]
          IN  \A p \in 1..Len(sub["tid"]) :
                 LET link == LinkOfTid(sub["tid"][p])
                 IN  /\ PositionHolds(tokens, sub["parent"][p],
                                      TokenOfTid(link.parent))
                     /\ PositionHolds(tokens, sub["child"][p],
                                      TokenOfTid(link.child))

\* C17: a get_data call that requests a link kind without requesting the
\* link's parent kind or child kind fails with the not-requested KeyError,
\* however many links of that kind fall in the active range, none included.
\* Stated for the first pull of a call in document context for the
\* dependencies alone.
C17_LinkWithoutParentKindRaises ==
    FirstPulledIn("document") /\ generator.requests = LinkOnlyRequest =>
        ret.err = "KeyError"

\* the stored annotations are within the range of a record: the whole pack
\* (range <<>>) or the span of the record's sentence
WithinRange(a, range) ==
    range = <<>> \/ (a.begin >= range[1].begin /\ a.end <= range[1].end)

\* the stored entries that match a request of a record: of the requested
\* kind, made by an allowed component, and in range; a link is in range
\* when its parent and child are
MatchingEntries(a_type, a_args, range) ==
    {e \in StoredEntries :
        /\ issubclass(e.kind, a_type)
        /\ e.component \in AllowedComponents(a_args)
        /\ IF isinstance(e, "Annotation") THEN WithinRange(e, range)
           ELSE \A t \in Range(annotations) :
                   (t.kind = "Token" /\ t.tid \in {e.parent, e.child})
                      => WithinRange(t, range)}

\* position p of every array of the sub-record refers to the entry e
RefersTo(rec, sub, p, e) ==
    /\ sub["tid"][p] = e.tid
    /\ "span" \in DOMAIN sub => sub["span"][p] = <<e.begin, e.end>>
    /\ "text" \in DOMAIN sub => sub["text"][p] = TextOf(e)
    /\ "unit_span" \in DOMAIN sub =>
          \A i \in sub["unit_span"][p][1]..(sub["unit_span"][p][2] - 1) :
             UnitWithin(rec["Token"], i, e)
    /\ "parent" \in DOMAIN sub =>
          /\ rec["Token"]["tid"][sub["parent"][p] + 1] = e.parent
          /\ rec["Token"]["tid"][sub["child"][p] + 1] = e.child

\* the range of the record just pulled: the whole pack in document
\* context, the sentence of the record in sentence context
RecordRange ==
    IF Lower(generator.context_type) = "document" THEN <<>>
    ELSE <<generator.produced[Len(generator.produced)]>>

\* C18: in every sub-record produced by get_data all arrays (span, text,
\* tid, unit_span, parent, child) have the same length, the number of
\* matching entries, and position p of each array refers to the same entry.
\* Stated for every record pulled.
C18_ArraysAligned ==
    ret.op = "next" /\ ret.val # <<>> =>
        \A n \in 1..Len(generator.requests.items) :
           LET a_type == generator.requests.items[n][1]
               a_args == generator.requests.items[n][2]
               rec == ret.val[1]
               exp == MatchingEntries(a_type, a_args, RecordRange)
           IN  a_type \in DOMAIN rec =>
                 /\ \A key \in DOMAIN rec[a_type] :
                       Len(rec[a_type][key]) = Cardinality(exp)
                 /\ \A p \in 1..Cardinality(exp) :
                       \E e \in exp : RefersTo(rec, rec[a_type], p, e)

(***************************************************************************)
(* Properties of the conditional insert.                                   *)
(***************************************************************************)
\* the call just made was add_or_get_entry with an entry equal to one that
\* was stored before the call
GotExisting == ret.op = "add_or_get_entry" /\ ret.had

\* C19: add_or_get_entry called with an entry equal to one already in the
\* target container returns the existing entry and changes nothing: the
\* three containers, the id counters, the identifier, type and component
\* indexes and the relation indexes are as before the call.
C19_ExistingEntryUnchanged ==
    [][GotExisting' =>
          /\ ret'.val \in StoredEntries
          /\ ret'.val = FirstEqual(TargetOf(ret'.val), ret'.val)
          /\ UNCHANGED <<text, annotations, links, groups, index, meta, internal_metas>>]_vars

(***************************************************************************)
(* Properties of the relation indexes under the public switches.           *)
(***************************************************************************)
\* a sub-index of the link index; one that was never created holds nothing
SubIndex(name) ==
    IF name \in DOMAIN index.link_index THEN index.link_index[name] ELSE {}

\* the link index holds, for every tid, exactly the stored links that have
\* it as parent and exactly those that have it as child
LinkIndexComplete ==
    \A t \in DOMAIN index.entry_index :
        /\ Lookup(SubIndex("parent_index"), t)
              = {l.tid : l \in {x \in Range(links) : x.parent = t}}
        /\ Lookup(SubIndex("child_index"), t)
              = {l.tid : l \in {x \in Range(links) : x.child = t}}

\* the group index holds, for every tid, exactly the stored groups that
\* have it as a member
GroupIndexComplete ==
    \A t \in DOMAIN index.entry_index :
        Lookup(index.group_index, t)
            = {g.tid : g \in {x \in Range(groups) : t \in x.members}}

\* C20: in every state reachable by inserts, relation lookups and the
\* public turn_link_index_switch and turn_group_index_switch, a relation
\* index whose switch is on is complete, and an insert of a link or a group
\* completes without error.
C20_SwitchOnIndexComplete ==
    /\ index.link_index_switch => LinkIndexComplete
    /\ index.group_index_switch => GroupIndexComplete
    /\ ret.op = "add_entry" => ret.err = None

(***************************************************************************)
(* Properties of the relation lookups.                                     *)
(***************************************************************************)
\* what get_links_by_parent / get_links_by_child / get_groups_by_member
\* can return for a tid in the current state, as a first or as a later
\* lookup
LinksBy(tid, as_parent) ==
    LET r == link_index(index, tid, as_parent)
    IN  EntriesOf(r.idx, r.tids, "Link")
GroupsBy(tid) ==
    LET r == group_index(index, tid)
    IN  EntriesOf(r.idx, r.tids, "Group")

\* C21: after any sequence of inserts, get_links_by_parent(p) returns
\* exactly the stored links whose parent is p, get_links_by_child(p) those
\* whose child is p and get_groups_by_member(p) the stored groups that have
\* p as a member, be it the first relation lookup or a later one.
C21_LookupsExact ==
    \A p \in DOMAIN index.entry_index :
        /\ LinksBy(p, TRUE) = {{l \in Range(links) : l.parent = p}}
        /\ LinksBy(p, FALSE) = {{l \in Range(links) : l.child = p}}
        /\ GroupsBy(p) = {{g \in Range(groups) : p \in g.members}}

(***************************************************************************)
(* Properties of the index after load.                                     *)
(***************************************************************************)
\* the identifier, type and component indexes cover every stored entry
BasicIndexCovers ==
    \A e \in StoredEntries :
        /\ e.tid \in DOMAIN index.entry_index
        /\ e.tid \in index.type_index[e.kind]
        /\ e.tid \in index.component_index[e.component]

\* a relation lookup made now returns what a full rebuild from the
\* containers gives
LookupRebuilds ==
    \A t \in DOMAIN index.entry_index :
        /\ \A as_parent \in BOOLEAN : link_index(index, t, as_parent).err = None
        /\ link_index(index, t, TRUE).tids
              = {l.tid : l \in {x \in Range(links) : x.parent = t}}
        /\ link_index(index, t, FALSE).tids
              = {l.tid : l \in {x \in Range(links) : x.child = t}}
        /\ group_index(index, t).tids
              = {g.tid : g \in {x \in Range(groups) : t \in x.members}}

\* C22: right after load the identifier, type and component indexes cover
\* every entry of the three containers, both relation switches are off
\* whatever they were before the save, and the first relation lookup
\* returns the result of a full rebuild from the loaded containers.
C22_LoadRebuildsIndexes ==
    ret.op = "load" =>
        /\ BasicIndexCovers
        /\ ~index.link_index_switch
        /\ ~index.group_index_switch
        /\ LookupRebuilds

\* C22 witness: a pack with a link and a group was loaded, and both
\* switches were on when it was saved
C22_Witness ==
    /\ ret.op = "load"
    /\ ret.link_switch_saved
    /\ ret.group_switch_saved
    /\ links # <<>>
    /\ ~index.link_index_switch
    /\ BasicIndexCovers

(***************************************************************************)
(* Properties of the document record.                                      *)
(***************************************************************************)
\* the stored tokens, in container order
StoredTokens == SelectSeq(annotations, LAMBDA a : a.kind = "Token")

\* C23: in document context, whatever the pack holds (no annotation at all
\* included), requesting an annotation kind and a link kind yields one
\* record whose sub-records list every stored entry of the kind, the
\* annotations in ascending span order, and no error is raised. Stated for
\* the first pull of a call for the tokens and the dependencies.
C23_DocumentListsAll ==
    FirstPulledIn("document") /\ generator.requests = LinkRequest =>
    LET out == ret
    IN  /\ out.err = None
        /\ Len(out.val) = 1
        /\ out.val[1]["Token"]["tid"]
              = [i \in 1..Len(StoredTokens) |-> StoredTokens[i].tid]
        /\ out.val[1]["Token"]["span"]
              = [i \in 1..Len(StoredTokens) |->
                    <<StoredTokens[i].begin, StoredTokens[i].end>>]
        /\ Len(out.val[1]["Dependency"]["tid"]) = Len(links)
        /\ Range(out.val[1]["Dependency"]["tid"]) = {l.tid : l \in Range(links)}

(***************************************************************************)
(* Properties of the insert of an entry of no valid kind.                  *)
(***************************************************************************)
\* the call just made was add_entry or add_or_get_entry with an entry that
\* is not an Annotation, a Link or a Group
GotInvalidKind ==
    /\ ret.op \in {"add_entry", "add_or_get_entry"}
    /\ ~HasTarget(ret.val)

\* C24: add_entry and add_or_get_entry called with an entry that is not an
\* Annotation, a Link or a Group raise ValueError and leave the pack as it
\* was: no tid is assigned, no container grows, no id counter is
\* incremented and no index is updated.
C24_InvalidKindRaises ==
    [][GotInvalidKind' =>
          /\ ret'.err = "ValueError"
          /\ "tid" \notin DOMAIN ret'.val
          /\ UNCHANGED <<text, annotations, links, groups, index, meta, internal_metas>>]_vars

\* C24 witness: add_or_get_entry on a pack that holds entries was called
\* with an instance of Entry and raised
C24_Witness ==
    /\ GotInvalidKind
    /\ ret.op = "add_or_get_entry"
    /\ ret.err = "ValueError"
    /\ NumEntries = MaxEntries
    /\ ~\E e \in StoredEntries : e.kind = "Entry"

(***************************************************************************)
(* Properties of set_meta.                                                 *)
(***************************************************************************)
\* the positions of the arguments whose name Meta does not have
UnknownAt(kwargs) == {i \in 1..Len(kwargs) : kwargs[i][1] \notin DOMAIN NewMeta}

\* the Meta m with the arguments kwargs[1..n] set, all others as in m
WithSet(m, kwargs, n) ==
    [a \in DOMAIN m |->
        IF \E i \in 1..n : kwargs[i][1] = a
        THEN kwargs[CHOOSE i \in 1..n : kwargs[i][1] = a][2]
        ELSE m[a]]

\* C25: set_meta with a name Meta does not have raises an
\* attribute error and leaves every attribute unchanged, also the known
\* ones passed in the same call; with known names only it sets exactly
\* those attributes.
C25_UnknownLeavesAll ==
    ret.op = "set_meta" =>
        IF UnknownAt(ret.kwargs) # {}
        THEN ret.err = "AttributeError" /\ meta = ret.before
        ELSE ret.err = None /\ meta = WithSet(ret.before, ret.kwargs, Len(ret.kwargs))

(***************************************************************************)
(* Properties of the id counters.                                          *)
(***************************************************************************)
\* the stored entries of a concrete kind, as (container, position) pairs
StoredOfKind(kind) ==
    {<<"annotations", i>> : i \in {j \in 1..Len(annotations) : annotations[j].kind = kind}}
    \cup {<<"links", i>> : i \in {j \in 1..Len(links) : links[j].kind = kind}}
    \cup {<<"groups", i>> : i \in {j \in 1..Len(groups) : groups[j].kind = kind}}

\* the entry stored at a (container, position) pair
StoredAt(p) ==
    CASE p[1] = "annotations" -> annotations[p[2]]
      [] p[1] = "links" -> links[p[2]]
      [] p[1] = "groups" -> groups[p[2]]

\* the counter of every kind counts the stored entries of the kind, and the
\* stored entries of one kind have pairwise distinct tids
CountersCount ==
    \A kind \in ConcreteKinds :
        /\ internal_metas[kind].id_counter = Cardinality(StoredOfKind(kind))
        /\ \A p, q \in StoredOfKind(kind) :
               p # q => StoredAt(p).tid # StoredAt(q).tid

\* a step in which add_entry or add_or_get_entry stored a new entry
Inserted ==
    /\ ret'.op \in {"add_entry", "add_or_get_entry"}
    /\ NumEntries' = NumEntries + 1

\* C26: for every concrete kind the id counter equals the number of stored
\* entries of the kind and never decreases; an insert of an entry of the
\* kind increments it by exactly one and gives the entry the decimal string
\* of the counter before the increment, so the tids of the stored entries
\* of one kind are pairwise distinct.
C26_CounterCountsKind ==
    /\ CountersCount
    /\ [][/\ CountersCount'
          /\ \A kind \in ConcreteKinds :
                /\ internal_metas'[kind].id_counter >= internal_metas[kind].id_counter
                /\ (Inserted /\ ret'.val.kind = kind) =>
                      /\ internal_metas'[kind].id_counter
                            = internal_metas[kind].id_counter + 1
                      /\ ret'.val.tid = ToString(internal_metas[kind].id_counter)
                      /\ ret'.val \in StoredEntries']_vars

\* C26 witness: the second entry of a kind was just inserted and has the
\* tid "1", the first one the tid "0"
C26_Witness ==
    /\ ret.op \in {"add_entry", "add_or_get_entry"}
    /\ ret.grew = 1
    /\ ret.val.kind = "Token"
    /\ ret.val.tid = "1"
    /\ internal_metas["Token"].id_counter = 2
    /\ Len(annotations) = 2
    /\ \E i \in 1..2 : annotations[i].tid = "0"

(***************************************************************************)
(* get_data is read-only.                                                  *)
(***************************************************************************)
\* C27: get_data, for any context and any request, whether it succeeds or
\* fails, leaves the text, the three containers, the id counters, the
\* recorded fields and the contents of the identifier, type and component
\* indexes (the id set of every kind and every component) unchanged. Stated
\* for the call, which makes the generator, and for every pull.
C27_GetDataReadOnly ==
    [][ret'.op \in {"generator", "next"} =>
          /\ UNCHANGED <<text, annotations, links, groups, internal_metas>>
          /\ index'.entry_index = index.entry_index
          /\ \A k \in ConcreteKinds : index'.type_index[k] = index.type_index[k]
          /\ \A c \in Components :
                index'.component_index[c] = index.component_index[c]]_vars

\* C27 witness: a pull has yielded a record of a call with a component
\* filter from a pack that holds sentences of both components, so that the
\* filter drops an id
C27_Witness ==
    /\ ret.op = "next"
    /\ ret.err = None
    /\ ret.val # <<>>
    /\ FilterSites(generator) # <<>>
    /\ \E a, b \in Range(annotations) :
          /\ a.kind = "Sentence" /\ b.kind = "Sentence"
          /\ a.component = "c1" /\ b.component = "c2"

(***************************************************************************)
(* The always-on indexes agree.                                            *)
(***************************************************************************)
\* the tids of the stored entries
StoredTids == {e.tid : e \in StoredEntries}

\* C28: in every reachable state the key set of entry_index, the union of
\* the id sets of type_index and the union of the id sets of
\* component_index are equal, and each is the set of tids of the stored
\* entries.
C28_BasicIndexesAgree ==
    /\ DOMAIN index.entry_index = StoredTids
    /\ UNION {index.type_index[k] : k \in ConcreteKinds} = StoredTids
    /\ UNION {index.component_index[c] : c \in Components} = StoredTids

\* C28 witness: a loaded pack holds two tokens of different components with
\* the tids "0" and "1"
C28_Witness ==
    /\ ret.op = "load"
    /\ Len(annotations) = 2
    /\ {a.tid : a \in Range(annotations)} = {"0", "1"}
    /\ {a.component : a \in Range(annotations)} = Components
    /\ \A a \in Range(annotations) : a.kind = "Token"

(***************************************************************************)
(* Inserts between the pulls of a sentence sequence.                       *)
(***************************************************************************)
\* s is the sequence t or the beginning of it
IsPrefix(s, t) == Len(s) <= Len(t) /\ s = SubSeq(t, 1, Len(s))

\* C29: with inserts between the pulls of a sentence-context get_data
\* sequence, the sentences records are produced for, and their order, are
\* those of the annotation container as it was at the first pull: the
\* records follow the sentences a whole consumption at the first pull would
\* have visited, a sentence inserted later produces none, and the sequence
\* ends after at most that many records.
C29_SentencesFixedAtFirstPull ==
    /\ IsPrefix(generator.produced, generator.expected)
    /\ \A i \in 1..Len(generator.produced) :
          \E j \in 1..Len(generator.copy) :
              generator.copy[j] = generator.produced[i]
    /\ Len(generator.produced) <= Len(generator.copy)
    /\ generator.state = "done" /\ generator.err = "StopIteration"
          => generator.produced = generator.expected

\* C29 witness: a sentence was inserted before the one a record had been
\* produced for, and the next pull ended the sequence with that one record
C29_Witness ==
    /\ ret.op = "next"
    /\ ret.was = "running"
    /\ generator.state = "done"
    /\ generator.err = "StopIteration"
    /\ Len(generator.produced) = 1
    /\ Len(generator.copy) = 1
    /\ \E i \in 1..Len(annotations) :
          /\ annotations[i].kind = "Sentence"
          /\ annotations[i].component = generator.produced[1].component
          /\ annotations[i] # generator.produced[1]
          /\ i = 1

====
